---- MODULE Spec2Model ----
(***************************************************************************)
(* Dependency-graph task scheduler of tunninet/bit-digital.                *)
(*                                                                         *)
(*   modules/tasks_parser.py : parse_tasks, validate_and_topological_sort, *)
(*                             compute_expected_runtime                    *)
(*   modules/scheduling.py   : run_tasks_with_threads,                     *)
(*                             run_tasks_multiprocessing                   *)
(*   mytool.py               : main (validate / run / run-hpc commands)    *)
(*                                                                         *)
(* A task set is a Python dict, which keeps insertion order: it is modelled *)
(* as the sequence of its Task records in insertion order.  Task names are *)
(* labels: where only well-formed files matter (ParseRecord) the i-th      *)
(* record is given the i-th name of AllNames.                              *)
(***************************************************************************)
EXTENDS Integers, Sequences, FiniteSets, TLC

\* ------------------------------------------------------------------ bounds
MaxTasks == 3
MaxEdges == 3
MaxDur == 3
MaxConcurrency == 3
MaxNodes == 2
MaxLines == 3
MaxTick == 2

\* ------------------------------------------------------------------ values
AllNames == <<"A", "B", "C", "D", "E", "F", "G", "H">>
\* A dependency name that no record ever declares.
Undeclared == "Z"
TaskNames == {AllNames[i] : i \in 1..MaxTasks}
DepNames == TaskNames \cup {Undeclared}
\* int() accepts a sign: one negative duration stands for all of them.
Durations == {-1} \cup (0..MaxDur)
UnitDurations == {1}

Max(S) == CHOOSE x \in S : \A y \in S : y <= x
Range(s) == {s[i] : i \in DOMAIN s}

\* ------------------------------------------------------------------ Task
Task(name, duration, dependencies) ==
  [name |-> name, duration |-> duration, dependencies |-> dependencies]

\* tasks.keys(), in insertion order
Keys(tasks) == [i \in DOMAIN tasks |-> tasks[i].name]
NameSet(tasks) == {tasks[i].name : i \in DOMAIN tasks}
\* tasks[name]
Get(tasks, name) == tasks[CHOOSE i \in DOMAIN tasks : tasks[i].name = name]

\* The (t_name, dep) pairs in the order of the nested loops
\*   for t_name, t_obj in tasks.items(): for dep in t_obj.dependencies
RECURSIVE DepPairs(_)
DepPairs(tasks) ==
  IF tasks = <<>> THEN <<>>
  ELSE LET t == Head(tasks)
       IN  [i \in DOMAIN t.dependencies |-> <<t.name, t.dependencies[i]>>]
           \o DepPairs(Tail(tasks))

TotalDeps(tasks) == Len(DepPairs(tasks))

\* ------------------------------------------------------------ parse_tasks
NoError == [kind |-> "none"]
ParseError(line_num, what) == [kind |-> "parse", line |-> line_num, what |-> what]

\* A line of the tasks file as parse_tasks sees it after line.strip(): empty,
\* starting with '#', or any other text.  A text line is given by parts =
\* line.split(',', 2), each part stripped: nparts = len(parts), name =
\* parts[0], duration = parts[1] (a string), deps = the words of parts[2].
Line(kind, nparts, name, duration, deps) ==
  [kind |-> kind, nparts |-> nparts, name |-> name, duration |-> duration,
   deps |-> deps]
BlankLine == Line("blank", 0, "", "", <<>>)
CommentLine == Line("comment", 0, "", "", <<>>)
\* "name" alone, without a comma
NameOnlyLine(name) == Line("text", 1, name, "", <<>>)
\* "name,duration" when deps is empty, "name,duration,dep1 dep2 .." otherwise
RecordLine(name, duration, deps) ==
  Line("text", IF deps = <<>> THEN 2 ELSE 3, name, duration, deps)

\* The decimal literal of a small integer, as it is written in a tasks file
Digits == <<"0", "1", "2", "3", "4", "5", "6", "7", "8", "9">>
Literal(d) == IF d < 0 THEN "-" \o Digits[1 - d] ELSE Digits[d + 1]
\* Duration fields that int() rejects
NonIntegers == {"x", "1.5", ""}

\* Line 41: int(parts[1].strip()), which raises ValueError unless the string
\* is an integer literal
int(s) ==
  IF \E d \in -9..9 : Literal(d) = s
  THEN [error |-> NoError, value |-> CHOOSE d \in -9..9 : Literal(d) = s]
  ELSE [error |-> [kind |-> "ValueError"]]

\* Mutant: line_num counts the record lines only, ignored lines are skipped
\* before the increment.
ParseLineCountsRecords(line, st) ==
  IF line.kind # "text" THEN st
  ELSE
    LET line_num == st.line_num + 1
        next == [st EXCEPT !.line_num = line_num]
    IN  IF line.nparts < 2
        THEN [next EXCEPT !.error = ParseError(line_num, "fields")]
        ELSE
          LET duration == int(line.duration)
              deps == IF line.nparts = 3 THEN line.deps ELSE <<>>
          IN  IF duration.error # NoError
              THEN [next EXCEPT !.error = ParseError(line_num, "duration")]
              ELSE IF line.name \in NameSet(st.tasks)
              THEN [next EXCEPT !.error = ParseError(line_num, "duplicate")]
              ELSE [next EXCEPT
                      !.tasks = Append(@, Task(line.name, duration.value, deps))]

\* Lines 29-54: the body of `for line in f`, on st = [tasks, line_num, error]
ParseLine(line, st) ==
  LET line_num == st.line_num + 1
      next == [st EXCEPT !.line_num = line_num]
  IN  IF line.kind # "text" THEN next
      ELSE IF line.nparts < 2
      THEN [next EXCEPT !.error = ParseError(line_num, "fields")]
      ELSE
        LET duration == int(line.duration)
            deps == IF line.nparts = 3 THEN line.deps ELSE <<>>
        IN  IF duration.error # NoError
            THEN [next EXCEPT !.error = ParseError(line_num, "duration")]
            ELSE IF line.name \in NameSet(st.tasks)
            THEN [next EXCEPT !.error = ParseError(line_num, "duplicate")]
            ELSE [next EXCEPT
                    !.tasks = Append(@, Task(line.name, duration.value, deps))]

\* ------------------------------------------- validate_and_topological_sort
UnknownError(t_name, d) == [kind |-> "unknown", task |-> t_name, dep |-> d]
CycleError == [kind |-> "cycle"]

Reverse(s) == [i \in DOMAIN s |-> s[Len(s) + 1 - i]]

\* Mutant: the check remembers the last unknown pair instead of raising at
\* the first.
MissingDepsLastFirst(tasks) ==
  Reverse(SelectSeq(DepPairs(tasks), LAMBDA p : p[2] \notin NameSet(tasks)))

\* Lines 64-67: the (task, dep) pairs whose dep is not a key of tasks, in
\* loop order; the loop raises at the first.
MissingDeps(tasks) ==
  SelectSeq(DepPairs(tasks), LAMBDA p : p[2] \notin NameSet(tasks))

\* Mutant: the edge is recorded in the wrong direction.
RECURSIVE BuildGraphReversed(_, _)
BuildGraphReversed(pairs, g) ==
  IF pairs = <<>> THEN g
  ELSE LET t_name == Head(pairs)[1]
           dep == Head(pairs)[2]
       IN  BuildGraphReversed(Tail(pairs),
             [adjacency_list |->
                [g.adjacency_list EXCEPT ![t_name] = Append(@, dep)],
              in_degree |-> [g.in_degree EXCEPT ![dep] = @ + 1]])

\* Lines 69-76: adjacency_list[dep].append(t_name); in_degree[t_name] += 1
RECURSIVE BuildGraph(_, _)
BuildGraph(pairs, g) ==
  IF pairs = <<>> THEN g
  ELSE LET t_name == Head(pairs)[1]
           dep == Head(pairs)[2]
       IN  BuildGraph(Tail(pairs),
             [adjacency_list |->
                [g.adjacency_list EXCEPT ![dep] = Append(@, t_name)],
              in_degree |-> [g.in_degree EXCEPT ![t_name] = @ + 1]])

EmptyGraph(tasks) ==
  [adjacency_list |-> [n \in NameSet(tasks) |-> <<>>],
   in_degree |-> [n \in NameSet(tasks) |-> 0]]

\* [n for n, deg in in_degree.items() if deg == 0], in insertion order
ZeroDegree(tasks, in_degree) ==
  SelectSeq(Keys(tasks), LAMBDA n : in_degree[n] = 0)

\* Mutant: the decrement is missing, so no dependent is ever released.
ReleaseNoDecrement(dependents, st) == st

\* Lines 85-88: for nxt in adjacency_list[current]: decrement, enqueue at zero
RECURSIVE Release(_, _)
Release(dependents, st) ==
  IF dependents = <<>> THEN st
  ELSE LET nxt == Head(dependents)
           deg == st.in_degree[nxt] - 1
       IN  Release(Tail(dependents),
             [st EXCEPT !.in_degree[nxt] = deg,
                        !.queue = IF deg = 0 THEN Append(@, nxt) ELSE @])

\* Lines 82-88: Kahn's algorithm
RECURSIVE Kahn(_, _)
Kahn(adjacency_list, st) ==
  IF st.queue = <<>> THEN st
  ELSE LET current == Head(st.queue)
       IN  Kahn(adjacency_list,
                Release(adjacency_list[current],
                        [st EXCEPT !.queue = Tail(@),
                                   !.topo_order = Append(@, current)]))

\* Mutant: a cycle is reported only when nothing at all could be ordered.
CycleDetectedIfEmpty(topo_order, tasks) == topo_order = <<>> /\ tasks # <<>>

\* Line 90: len(topo_order) != len(tasks)
CycleDetected(topo_order, tasks) == Len(topo_order) # Len(tasks)

validate_and_topological_sort(tasks) ==
  LET missing == MissingDeps(tasks)
  IN  IF missing # <<>>
      THEN [error |-> UnknownError(Head(missing)[1], Head(missing)[2])]
      ELSE LET g == BuildGraph(DepPairs(tasks), EmptyGraph(tasks))
               st == Kahn(g.adjacency_list,
                          [queue |-> ZeroDegree(tasks, g.in_degree),
                           topo_order |-> <<>>,
                           in_degree |-> g.in_degree])
           IN  IF CycleDetected(st.topo_order, tasks)
               THEN [error |-> CycleError]
               ELSE [error |-> NoError,
                     topo_order |-> st.topo_order,
                     adjacency_list |-> g.adjacency_list,
                     in_degree |-> st.in_degree]

\* ------------------------------------------------ compute_expected_runtime
RuntimeError == [kind |-> "max_empty"]

\* Mutant: only the first dependency is looked at instead of the latest one.
RECURSIVE EarliestFinishFirstDep(_, _, _)
EarliestFinishFirstDep(tasks, topo_order, earliest_finish) ==
  IF topo_order = <<>> THEN earliest_finish
  ELSE LET t_name == Head(topo_order)
           t_obj == Get(tasks, t_name)
           ef == IF t_obj.dependencies = <<>>
                 THEN t_obj.duration
                 ELSE earliest_finish[t_obj.dependencies[1]] + t_obj.duration
       IN  EarliestFinishFirstDep(tasks, Tail(topo_order),
                                  (t_name :> ef) @@ earliest_finish)

\* Mutant: a task with dependencies finishes its duration before the latest
\* of them instead of after it.
RECURSIVE EarliestFinishSubtract(_, _, _)
EarliestFinishSubtract(tasks, topo_order, earliest_finish) ==
  IF topo_order = <<>> THEN earliest_finish
  ELSE LET t_name == Head(topo_order)
           t_obj == Get(tasks, t_name)
           ef == IF t_obj.dependencies = <<>>
                 THEN t_obj.duration
                 ELSE Max({earliest_finish[d] : d \in Range(t_obj.dependencies)})
                      - t_obj.duration
       IN  EarliestFinishSubtract(tasks, Tail(topo_order),
                                  (t_name :> ef) @@ earliest_finish)

\* Lines 100-107: the loop over topo_order filling earliest_finish
RECURSIVE EarliestFinish(_, _, _)
EarliestFinish(tasks, topo_order, earliest_finish) ==
  IF topo_order = <<>> THEN earliest_finish
  ELSE LET t_name == Head(topo_order)
           t_obj == Get(tasks, t_name)
           ef == IF t_obj.dependencies = <<>>
                 THEN t_obj.duration
                 ELSE Max({earliest_finish[d] : d \in Range(t_obj.dependencies)})
                      + t_obj.duration
       IN  EarliestFinish(tasks, Tail(topo_order),
                          (t_name :> ef) @@ earliest_finish)

\* Mutant: the maximum over nothing is taken to be 0 (max(..., default=0)).
ExpectedRuntimeOrZero(tasks, topo_order) ==
  LET earliest_finish == EarliestFinish(tasks, topo_order, <<>>)
  IN  [error |-> NoError,
       value |-> Max({0} \cup {earliest_finish[n] : n \in DOMAIN earliest_finish})]

\* max() of an empty dict's values raises ValueError
compute_expected_runtime(tasks, topo_order) ==
  LET earliest_finish == EarliestFinish(tasks, topo_order, <<>>)
  IN  IF DOMAIN earliest_finish = {}
      THEN [error |-> RuntimeError]
      ELSE [error |-> NoError,
            value |-> Max({earliest_finish[n] : n \in DOMAIN earliest_finish})]

\* ------------------------------------------------------------------ state
VARIABLES
  command,          \* mytool.py subcommand: "validate", "run" or "run-hpc"
  stage,            \* position in main: the step to be taken next
  file,             \* the lines parse_tasks has read from the tasks file
  line_num,         \* parse_tasks: number of the line read last
  parsed,           \* what parse_tasks raised, if anything
  tasks,            \* the task set built by parse_tasks
  validated,        \* what validate_and_topological_sort returned or raised
  exp,              \* what compute_expected_runtime returned or raised
  pc,               \* position of the scheduler's dispatch loop
  max_limit,        \* max_workers / max_procs of the running scheduler
  in_degree,        \* the scheduler's own in-degree table
  ready_queue,      \* deque of READY task names
  running_futures,  \* thread backend: futures the dispatcher holds
  work_queue,       \* thread backend: the executor's queue of work items
  future,           \* thread backend: state of each task's future
  done,             \* the batch of completions being processed
  node_list,        \* process backend: placement domains
  active_on_node,   \* process backend: active count of each domain
  remaining_tasks,  \* process backend: tasks not yet completed
  running_processes,\* process backend: (process, pipe, node_id) entries
  scan,             \* process backend: entries the current for loop has left
  still_running,    \* process backend: entries polled without a signal
  finished,         \* process backend: entries whose signal was received
  proc,             \* process backend: state of each task's context
  joined,           \* process backend: contexts the dispatcher has joined
  pinning,          \* process backend: how each context's pinning went
  ticking,          \* whether the sleeps are measured on the logical clock
  now,              \* the logical clock, in ticks
  remaining,        \* ticks each workload still has to sleep
  starts,           \* history: how often each task's workload was started
  observed          \* history: completions the dispatcher has obtained

parseVars == <<file, line_num, parsed>>
mainVars == <<command, stage, parseVars, tasks, validated, exp>>
loopVars == <<pc, max_limit, in_degree, ready_queue, done>>
threadVars == <<running_futures, work_queue, future>>
procVars == <<node_list, active_on_node, remaining_tasks, running_processes,
              scan, still_running, finished, proc, joined, pinning>>
histVars == <<starts, observed>>
clockVars == <<ticking, now>>
schedVars == <<loopVars, threadVars, procVars, histVars, clockVars, remaining>>
vars == <<mainVars, schedVars>>

\* ------------------------------------------------------------------ main
InitWith(cmd, clock) ==
  /\ command = cmd
  /\ ticking = clock
  /\ now = 0
  /\ remaining = <<>>
  /\ stage = "parse"
  /\ file = <<>>
  /\ line_num = 0
  /\ parsed = [error |-> NoError]
  /\ tasks = <<>>
  /\ validated = [error |-> NoError]
  /\ exp = [error |-> NoError]
  /\ pc = "idle"
  /\ max_limit = 0
  /\ in_degree = <<>>
  /\ ready_queue = <<>>
  /\ running_futures = {}
  /\ work_queue = <<>>
  /\ future = <<>>
  /\ done = {}
  /\ node_list = <<>>
  /\ active_on_node = <<>>
  /\ remaining_tasks = 0
  /\ running_processes = <<>>
  /\ scan = <<>>
  /\ still_running = <<>>
  /\ finished = <<>>
  /\ proc = <<>>
  /\ joined = {}
  /\ pinning = <<>>
  /\ starts = <<>>
  /\ observed = {}

\* The command starts; time.sleep returns after any delay
InitFor(cmd) == InitWith(cmd, FALSE)

\* The command starts; time.sleep(d) returns as soon as d ticks have passed
InitTimed(cmd) == InitWith(cmd, TRUE)

\* Dependency lists of at most k entries: dep_str.split()
DepLists(k) == UNION {[1..m -> DepNames] : m \in 0..k}

\* parse_tasks reads one more line, one of L; a ValueError leaves main
\* through its except clause, tasks never being assigned
ReadLine(L) ==
  /\ stage = "parse"
  /\ \E line \in L :
       LET st == ParseLine(line, [tasks |-> tasks, line_num |-> line_num,
                                  error |-> NoError])
       IN  /\ file' = Append(file, line)
           /\ line_num' = st.line_num
           /\ parsed' = [error |-> st.error]
           /\ tasks' = IF st.error = NoError THEN st.tasks ELSE <<>>
           /\ stage' = IF st.error = NoError THEN "parse" ELSE "error"
  /\ UNCHANGED <<command, validated, exp, schedVars>>

\* parse_tasks, one well-formed record: tasks[name] = Task(name, duration, deps)
ParseRecord(D) ==
  /\ Len(tasks) < MaxTasks
  /\ ReadLine({RecordLine(AllNames[Len(tasks) + 1], Literal(duration), deps) :
                 duration \in D,
                 deps \in DepLists(MaxEdges - TotalDeps(tasks))})

\* parse_tasks reaches the end of the file and returns tasks
EndOfFile ==
  /\ stage = "parse"
  /\ stage' = "validate"
  /\ UNCHANGED <<command, parseVars, tasks, validated, exp, schedVars>>

\* topo, adj, _ = validate_and_topological_sort(tasks), inside the try block
Validate ==
  /\ stage = "validate"
  /\ validated' = validate_and_topological_sort(tasks)
  /\ stage' = IF validated'.error = NoError THEN "expected" ELSE "error"
  /\ UNCHANGED <<command, parseVars, tasks, exp, schedVars>>

\* exp = compute_expected_runtime(tasks, topo); the validate command then
\* prints it and returns, run and run-hpc go on to the scheduler
Expected ==
  /\ stage = "expected"
  /\ exp' = compute_expected_runtime(tasks, validated.topo_order)
  /\ stage' = IF exp'.error # NoError THEN "error"
              ELSE IF command = "validate" THEN "done" ELSE "execute"
  /\ UNCHANGED <<command, parseVars, tasks, validated, schedVars>>

\* The validate command.  validate_and_topological_sort never reads a
\* duration, so SpecValidate parses unit durations only; SpecRuntime parses
\* every duration for compute_expected_runtime.
NextValidate ==
  \/ ParseRecord(UnitDurations)
  \/ EndOfFile
  \/ Validate
  \/ Expected

SpecValidate == InitFor("validate") /\ [][NextValidate]_vars

\* The validate command over files of every kind of line: two names, so
\* that a name can come twice, durations that int() takes or rejects,
\* records of one, two and three parts.
ParseNames == {"A", "B"}
DurationFields == {Literal(2), Literal(-1)} \cup NonIntegers
FileLines ==
  {BlankLine, CommentLine}
    \cup {NameOnlyLine(name) : name \in ParseNames}
    \cup {RecordLine(name, duration, deps) :
            name \in ParseNames, duration \in DurationFields,
            deps \in {<<>>, <<"A">>, <<"B", Undeclared>>}}

\* for line in f: one more line of the file
ReadFile ==
  /\ Len(file) < MaxLines
  /\ ReadLine(FileLines)

NextParse ==
  \/ ReadFile
  \/ EndOfFile
  \/ Validate
  \/ Expected

SpecParse == InitFor("validate") /\ [][NextParse]_vars

\* The tasks file  A,1 / B,1,A / C,1,A / D,1,B C
ScenarioFile ==
  <<RecordLine("A", Literal(1), <<>>),
    RecordLine("B", Literal(1), <<"A">>),
    RecordLine("C", Literal(1), <<"A">>),
    RecordLine("D", Literal(1), <<"B", "C">>)>>

\* for line in f: a file of as many lines as the scenario has, made of the
\* scenario's lines in any order, blank lines and comments
ReadScenario ==
  /\ Len(file) < Len(ScenarioFile)
  /\ ReadLine(Range(ScenarioFile) \cup {BlankLine, CommentLine})

NextScenario ==
  \/ ReadScenario
  \/ EndOfFile
  \/ Validate
  \/ Expected

SpecScenario == InitFor("validate") /\ [][NextScenario]_vars

NextRuntime ==
  \/ ParseRecord(Durations)
  \/ EndOfFile
  \/ Validate
  \/ Expected

SpecRuntime == InitFor("validate") /\ [][NextRuntime]_vars

\* ------------------------------------------------- both schedulers
\* Mutant: the scheduler starts from a table in the state in which validate
\* returns its own.
FreshInDegreeConsumed(ts) ==
  [n \in NameSet(ts) |-> 0]

\* Lines 55-58 and 164-167: in_degree[t_name] += 1 for every dependency entry
FreshInDegree(ts) ==
  [n \in NameSet(ts) |-> Len(Get(ts, n).dependencies)]

\* Mutant: a dependent is enqueued at its first decrement, whatever is left.
RECURSIVE MarkDependentsNoZeroTest(_, _)
MarkDependentsNoZeroTest(dependents, st) ==
  IF dependents = <<>> THEN st
  ELSE LET dep == Head(dependents)
           deg == st.in_degree[dep] - 1
       IN  MarkDependentsNoZeroTest(Tail(dependents),
             [in_degree |-> [st.in_degree EXCEPT ![dep] = deg],
              ready_queue |->
                IF dep \in Range(st.ready_queue) THEN st.ready_queue
                ELSE Append(st.ready_queue, dep)])

\* Mutant: the dependents of a finished task are never looked at.
MarkDependentsSkipped(dependents, st) == st

\* Mutant: a dependent listed twice for the same dependency is counted down
\* once only.
RECURSIVE MarkDependentsOncePerTask(_, _)
MarkDependentsOncePerTask(dependents, st) ==
  IF dependents = <<>> THEN st
  ELSE LET dep == Head(dependents)
           deg == st.in_degree[dep] - 1
       IN  IF dep \in Range(Tail(dependents))
           THEN MarkDependentsOncePerTask(Tail(dependents), st)
           ELSE MarkDependentsOncePerTask(Tail(dependents),
                  [in_degree |-> [st.in_degree EXCEPT ![dep] = deg],
                   ready_queue |-> IF deg = 0 THEN Append(st.ready_queue, dep)
                                   ELSE st.ready_queue])

\* Mutant: a dependent that becomes ready goes to the front of the queue
\* (appendleft).
RECURSIVE MarkDependentsAppendLeft(_, _)
MarkDependentsAppendLeft(dependents, st) ==
  IF dependents = <<>> THEN st
  ELSE LET dep == Head(dependents)
           deg == st.in_degree[dep] - 1
       IN  MarkDependentsAppendLeft(Tail(dependents),
             [in_degree |-> [st.in_degree EXCEPT ![dep] = deg],
              ready_queue |-> IF deg = 0 THEN <<dep>> \o st.ready_queue
                              ELSE st.ready_queue])

\* Lines 89-92 and 218-221:
\*   for dep in adjacency_list[finished_task]:
\*     in_degree[dep] -= 1; if in_degree[dep] == 0: ready_queue.append(dep)
RECURSIVE MarkDependents(_, _)
MarkDependents(dependents, st) ==
  IF dependents = <<>> THEN st
  ELSE LET dep == Head(dependents)
           deg == st.in_degree[dep] - 1
       IN  MarkDependents(Tail(dependents),
             [in_degree |-> [st.in_degree EXCEPT ![dep] = deg],
              ready_queue |-> IF deg = 0 THEN Append(st.ready_queue, dep)
                              ELSE st.ready_queue])

\* The dispatcher processes the completion of finished_task
Completion(finished_task) ==
  LET st == MarkDependents(validated.adjacency_list[finished_task],
                           [in_degree |-> in_degree, ready_queue |-> ready_queue])
  IN  /\ in_degree' = st.in_degree
      /\ ready_queue' = st.ready_queue

\* ------------------------------------------------- run_tasks_with_threads
Running == {n \in DOMAIN future : future[n] = "RUNNING"}

\* Mutant: the in-degree table is built on the first call only and kept for
\* the next one.
ThreadsEnterKeepsTable ==
  /\ stage = "execute" /\ command = "run" /\ pc = "idle"
  /\ \E max_workers \in 1..MaxConcurrency : max_limit' = max_workers
  /\ in_degree' = IF in_degree = <<>> THEN FreshInDegree(tasks) ELSE in_degree
  /\ ready_queue' = ZeroDegree(tasks, in_degree')
  /\ running_futures' = {}
  /\ work_queue' = <<>>
  /\ future' = [n \in NameSet(tasks) |-> "NONE"]
  /\ starts' = [n \in NameSet(tasks) |-> 0]
  /\ observed' = {}
  /\ remaining' = [n \in NameSet(tasks) |-> 0]
  /\ pc' = "loop"
  /\ UNCHANGED <<mainVars, clockVars, done, procVars>>

\* Lines 54-64: run_tasks_with_threads(tasks, adj, max_workers) is entered
ThreadsEnter ==
  /\ stage = "execute" /\ command = "run" /\ pc = "idle"
  /\ \E max_workers \in 1..MaxConcurrency : max_limit' = max_workers
  /\ in_degree' = FreshInDegree(tasks)
  /\ ready_queue' = ZeroDegree(tasks, in_degree')
  /\ running_futures' = {}
  /\ work_queue' = <<>>
  /\ future' = [n \in NameSet(tasks) |-> "NONE"]
  /\ starts' = [n \in NameSet(tasks) |-> 0]
  /\ observed' = {}
  /\ remaining' = [n \in NameSet(tasks) |-> 0]
  /\ pc' = "loop"
  /\ UNCHANGED <<mainVars, clockVars, done, procVars>>

\* Line 74: while ready_queue or running_futures
ThreadsLoop ==
  /\ command = "run" /\ pc = "loop"
  /\ pc' = IF ready_queue # <<>> \/ running_futures # {} THEN "submit"
           ELSE "shutdown"
  /\ UNCHANGED <<mainVars, clockVars, remaining, max_limit, in_degree, ready_queue, done,
                 threadVars, procVars, histVars>>

\* Mutant: the inner loop stops submitting once max_workers handles are held.
ThreadsSubmitBounded ==
  /\ command = "run" /\ pc = "submit"
  /\ IF ready_queue # <<>> /\ Cardinality(running_futures) < max_limit
     THEN LET next_task == Head(ready_queue)
          IN  /\ ready_queue' = Tail(ready_queue)
              /\ future' = [future EXCEPT ![next_task] = "PENDING"]
              /\ work_queue' = Append(work_queue, next_task)
              /\ running_futures' = running_futures \cup {next_task}
              /\ pc' = pc
     ELSE /\ pc' = "wait"
          /\ UNCHANGED <<ready_queue, future, work_queue, running_futures>>
  /\ UNCHANGED <<mainVars, clockVars, remaining, max_limit, in_degree, done, procVars, histVars>>

\* Lines 76-79: one turn of the inner loop, fut = executor.submit(worker, t)
ThreadsSubmit ==
  /\ command = "run" /\ pc = "submit"
  /\ IF ready_queue # <<>>
     THEN LET next_task == Head(ready_queue)
          IN  /\ ready_queue' = Tail(ready_queue)
              /\ future' = [future EXCEPT ![next_task] = "PENDING"]
              /\ work_queue' = Append(work_queue, next_task)
              /\ running_futures' = running_futures \cup {next_task}
              /\ pc' = pc
     ELSE /\ pc' = "wait"
          /\ UNCHANGED <<ready_queue, future, work_queue, running_futures>>
  /\ UNCHANGED <<mainVars, clockVars, remaining, max_limit, in_degree, done, procVars, histVars>>

\* A future is done once its call has returned or raised
FutureDone(state) == state \in {"FINISHED", "RAISED"}

\* Mutant: the dispatcher waits until every future it holds is done
\* (return_when=ALL_COMPLETED).
ThreadsWaitAll ==
  /\ command = "run" /\ pc = "wait"
  /\ running_futures # {}
  /\ \A n \in running_futures : FutureDone(future[n])
  /\ done' = running_futures
  /\ running_futures' = {}
  /\ observed' = observed \cup done'
  /\ pc' = "process"
  /\ UNCHANGED <<mainVars, clockVars, remaining, max_limit, in_degree,
                 ready_queue, work_queue, future, procVars, starts>>

\* Lines 82-83: wait(running_futures, FIRST_COMPLETED) returns once some
\* future is done, with the futures done at that moment
ThreadsWait ==
  /\ command = "run" /\ pc = "wait"
  /\ \E n \in running_futures : FutureDone(future[n])
  /\ done' = {n \in running_futures : FutureDone(future[n])}
  /\ running_futures' = running_futures \ done'
  /\ observed' = observed \cup done'
  /\ pc' = "process"
  /\ UNCHANGED <<mainVars, clockVars, remaining, max_limit, in_degree, ready_queue, work_queue,
                 future, procVars, starts>>

\* Mutant: what a worker raised is dropped and the failed task is treated
\* as completed.
ThreadsProcessSwallow ==
  /\ command = "run" /\ pc = "process"
  /\ IF done # {}
     THEN \E finished_task \in done :
            /\ Completion(finished_task)
            /\ done' = done \ {finished_task}
            /\ pc' = pc
     ELSE /\ pc' = "loop"
          /\ UNCHANGED <<in_degree, ready_queue, done>>
  /\ UNCHANGED <<mainVars, clockVars, remaining, max_limit, threadVars,
                 procVars, histVars>>

\* Mutant: the pool is shut down without waiting for its work items.
ThreadsReturnNoWait ==
  /\ command = "run" /\ pc = "shutdown"
  /\ pc' = "returned"
  /\ stage' = IF \E n \in done : future[n] = "RAISED" THEN "error" ELSE "done"
  /\ UNCHANGED <<command, clockVars, remaining, parseVars, tasks, validated,
                 exp, max_limit, in_degree, ready_queue, done, threadVars,
                 procVars, histVars>>

\* Lines 86-92: one completed future of the batch, in the set's order;
\* completed_fut.result() raises what the worker raised, which ends the
\* loops and leaves the with block, the future still in the batch
ThreadsProcess ==
  /\ command = "run" /\ pc = "process"
  /\ IF done # {}
     THEN \E finished_task \in done :
            IF future[finished_task] = "RAISED"
            THEN /\ pc' = "shutdown"
                 /\ UNCHANGED <<in_degree, ready_queue, done>>
            ELSE /\ Completion(finished_task)
                 /\ done' = done \ {finished_task}
                 /\ pc' = pc
     ELSE /\ pc' = "loop"
          /\ UNCHANGED <<in_degree, ready_queue, done>>
  /\ UNCHANGED <<mainVars, clockVars, remaining, max_limit, threadVars, procVars, histVars>>

\* Lines 73 and 94-95: leaving the with block shuts the pool down, waiting
\* for every submitted work item; then the function returns, or the
\* ValueError of a worker goes on to main's except clause (mytool.py lines
\* 268-270), which reports it as "Validation error"
ThreadsReturn ==
  /\ command = "run" /\ pc = "shutdown"
  /\ \A n \in DOMAIN future : future[n] \notin {"PENDING", "RUNNING"}
  /\ pc' = "returned"
  /\ stage' = IF \E n \in done : future[n] = "RAISED" THEN "error" ELSE "done"
  /\ UNCHANGED <<command, clockVars, remaining, parseVars,
                 tasks, validated, exp, max_limit,
                 in_degree,
                 ready_queue, done, threadVars, procVars, histVars>>

\* Mutant: max_workers is not handed to the executor, whose own default
\* lets every work item run at once.
WorkerAvailableUnbounded(running, limit) == TRUE

\* Mutant: one of the pool's threads is never used.
WorkerAvailableOneLess(running, limit) == Cardinality(running) + 1 < limit

\* Line 73: ThreadPoolExecutor(max_workers=max_workers) runs at most
\* max_workers work items at a time
WorkerAvailable(running, limit) == Cardinality(running) < limit

\* Mutant: a sleep is over one tick early.
SleepTicksShort(duration) == IF duration < 1 THEN 0 ELSE duration - 1

\* time.sleep(duration): the ticks the sleep lasts at least; a negative
\* duration raises at once
SleepTicks(duration) == IF duration < 0 THEN 0 ELSE duration

\* Whether the sleep of workload n may be over
Slept(n) == ticking => remaining[n] = 0

\* A pool thread (at most max_workers of them) takes the oldest work item
\* and calls worker(task_name): lines 66-70
WorkerStart ==
  /\ command = "run"
  /\ work_queue # <<>>
  /\ WorkerAvailable(Running, max_limit)
  /\ future' = [future EXCEPT ![Head(work_queue)] = "RUNNING"]
  /\ starts' = [starts EXCEPT ![Head(work_queue)] = @ + 1]
  /\ remaining' = [remaining EXCEPT ![Head(work_queue)] =
                     SleepTicks(Get(tasks, Head(work_queue)).duration)]
  /\ work_queue' = Tail(work_queue)
  /\ UNCHANGED <<mainVars, clockVars, loopVars, running_futures, procVars, observed>>

\* Line 70: time.sleep(duration) raises ValueError for a negative duration
Sleep(duration) == IF duration < 0 THEN "RAISED" ELSE "FINISHED"

\* Mutant: the pool thread itself counts down the dependents of its task.
WorkerFinishMarks ==
  /\ command = "run"
  /\ \E n \in Running :
       /\ Slept(n)
       /\ future' = [future EXCEPT ![n] = Sleep(Get(tasks, n).duration)]
       /\ remaining' = [remaining EXCEPT ![n] = 0]
       /\ Completion(n)
  /\ UNCHANGED <<mainVars, clockVars, pc, max_limit, done, running_futures,
                 work_queue, procVars, histVars>>

\* Lines 69-71: worker sleeps and returns task_name, or sleep raises; either
\* way the future is done
WorkerFinish ==
  /\ command = "run"
  /\ \E n \in Running :
       /\ Slept(n)
       /\ future' = [future EXCEPT ![n] = Sleep(Get(tasks, n).duration)]
       /\ remaining' = [remaining EXCEPT ![n] = 0]
  /\ UNCHANGED <<mainVars, clockVars, loopVars, running_futures, work_queue, procVars,
                 histVars>>

ThreadsDispatcher ==
  \/ ThreadsEnter
  \/ ThreadsLoop
  \/ ThreadsSubmit
  \/ ThreadsWait
  \/ ThreadsProcess
  \/ ThreadsReturn

\* The run command
NextThreads ==
  \/ ParseRecord(UnitDurations)
  \/ EndOfFile
  \/ Validate
  \/ Expected
  \/ ThreadsDispatcher
  \/ WorkerStart
  \/ WorkerFinish

SpecThreads == InitFor("run") /\ [][NextThreads]_vars

\* The run command over files of every kind of line, negative durations
\* among them
NextRun ==
  \/ ReadFile
  \/ EndOfFile
  \/ Validate
  \/ Expected
  \/ ThreadsDispatcher
  \/ WorkerStart
  \/ WorkerFinish

SpecRun == InitFor("run") /\ [][NextRun]_vars

\* The dispatcher and the pool threads keep running, and every workload ends
FairSpecThreads ==
  /\ SpecThreads
  /\ WF_vars(ThreadsDispatcher)
  /\ WF_vars(WorkerStart)
  /\ WF_vars(WorkerFinish)

\* ---------------------------------------------- run_tasks_multiprocessing
\* Mutant: the entry does not keep the node the context was placed on.
EntryOnFirstNode(task_name, node_id) == [task |-> task_name, node_id |-> 0]

\* An entry (p, parent_conn, node_id) of running_processes; the process and
\* its pipe are identified by the task they were created for
Entry(task_name, node_id) == [task |-> task_name, node_id |-> node_id]

\* Mutant: the most loaded domain is chosen.
MostLoaded(nodes, active) ==
  nodes[CHOOSE i \in DOMAIN nodes :
          \A j \in DOMAIN nodes :
            /\ active[nodes[j]] <= active[nodes[i]]
            /\ j < i => active[nodes[j]] < active[nodes[i]]]

\* Line 179: min(node_list, key=lambda n: active_on_node[n]), the first
\* domain of node_list with the smallest count
LeastLoaded(nodes, active) ==
  nodes[CHOOSE i \in DOMAIN nodes :
          \A j \in DOMAIN nodes :
            /\ active[nodes[i]] <= active[nodes[j]]
            /\ j < i => active[nodes[i]] < active[nodes[j]]]

\* Mutant: a slot is taken to be free while no more than max_procs run.
HasCapacityOffByOne(running, limit) == Len(running) <= limit

\* Mutant: a limit below one is taken to be one.
HasCapacityAtLeastOne(running, limit) ==
  Len(running) < (IF limit < 1 THEN 1 ELSE limit)

\* Line 194: len(running_processes) < max_procs
HasCapacity(running, limit) == Len(running) < limit

\* Mutant: the context's own exit is taken for its completion signal.
PipeReadyAlways(state) == state # "NONE"

\* Line 206: pipe.poll() is true once the context has sent its task name
PipeReady(state) == state \in {"SENT", "EXITED"}

\* An optional argument: None, or a value
None == {}
Given(k) == {k}
ValueOf(arg) == CHOOSE k \in arg : TRUE

\* Lines 151-157: the nodes 0..max_node that NUMA discovery reports, or the
\* single node 0 when py-libnuma or libnuma.so is missing
NodeList(numa, max_node) ==
  IF numa THEN [i \in 1..(max_node + 1) |-> i - 1] ELSE <<0>>

\* Mutant: the other heuristic of the comment in line 160, the number of
\* CPUs.
DefaultProcsCpuCount(max_procs, nodes) ==
  IF max_procs = None THEN MaxConcurrency ELSE ValueOf(max_procs)

\* Lines 159-161: max_procs defaults to the number of nodes
DefaultProcs(max_procs, nodes) ==
  IF max_procs = None THEN Len(nodes) ELSE ValueOf(max_procs)

\* Lines 150-176: run_tasks_multiprocessing(tasks, adj, max_procs) is entered
\* with n placement domains (one when NUMA is unavailable) and max_procs
\* either given, as one of the integers of Limits, or defaulting to the
\* number of domains
ProcsEnterWith(Limits) ==
  /\ stage = "execute" /\ command = "run-hpc" /\ pc = "idle"
  /\ \E numa \in BOOLEAN, max_node \in 0..(MaxNodes - 1),
        max_procs \in {None} \cup {Given(k) : k \in Limits} :
       /\ node_list' = NodeList(numa, max_node)
       /\ max_limit' = DefaultProcs(max_procs, node_list')
  /\ in_degree' = FreshInDegree(tasks)
  /\ ready_queue' = ZeroDegree(tasks, in_degree')
  /\ running_processes' = <<>>
  /\ active_on_node' = [nid \in Range(node_list') |-> 0]
  /\ remaining_tasks' = Len(tasks)
  /\ proc' = [n \in NameSet(tasks) |-> "NONE"]
  /\ joined' = {}
  /\ pinning' = [n \in NameSet(tasks) |-> "NONE"]
  /\ starts' = [n \in NameSet(tasks) |-> 0]
  /\ observed' = {}
  /\ remaining' = [n \in NameSet(tasks) |-> 0]
  /\ pc' = "loop"
  /\ UNCHANGED <<mainVars, clockVars, done, threadVars, scan, still_running, finished>>

\* The function entered with a limit of one or more
ProcsEnter == ProcsEnterWith(1..MaxConcurrency)

\* Mutant: the loop goes on while there is something queued or running, as
\* the thread backend's does.
ProcsLoopWhileWork ==
  /\ command = "run-hpc" /\ pc = "loop"
  /\ IF ready_queue # <<>> \/ running_processes # <<>>
     THEN pc' = "spawn" /\ scan' = scan
     ELSE pc' = "cleanup" /\ scan' = running_processes
  /\ UNCHANGED <<mainVars, clockVars, remaining, max_limit, in_degree,
                 ready_queue, done, threadVars, node_list, pinning,
                 active_on_node, remaining_tasks, running_processes,
                 still_running, finished, proc, joined, histVars>>

\* Line 192: while remaining_tasks > 0; line 224 starts the clean-up loop
ProcsLoop ==
  /\ command = "run-hpc" /\ pc = "loop"
  /\ IF remaining_tasks > 0
     THEN pc' = "spawn" /\ scan' = scan
     ELSE pc' = "cleanup" /\ scan' = running_processes
  /\ UNCHANGED <<mainVars, clockVars, remaining, max_limit, in_degree, ready_queue, done,
                 threadVars, node_list, pinning, active_on_node, remaining_tasks,
                 running_processes, still_running, finished, proc, joined,
                 histVars>>

\* Lines 194-195 with spawn_task, lines 178-190: one turn of the inner loop
ProcsSpawn ==
  /\ command = "run-hpc" /\ pc = "spawn"
  /\ IF ready_queue # <<>> /\ HasCapacity(running_processes, max_limit)
     THEN LET task_name == Head(ready_queue)
              node_id == LeastLoaded(node_list, active_on_node)
          IN  /\ ready_queue' = Tail(ready_queue)
              /\ active_on_node' = [active_on_node EXCEPT ![node_id] = @ + 1]
              /\ proc' = [proc EXCEPT ![task_name] = "STARTED"]
              /\ starts' = [starts EXCEPT ![task_name] = @ + 1]
              /\ remaining' = [remaining EXCEPT ![task_name] =
                                 SleepTicks(Get(tasks, task_name).duration)]
              /\ running_processes' =
                   Append(running_processes, Entry(task_name, node_id))
              /\ pc' = pc
     ELSE /\ pc' = "check"
          /\ UNCHANGED <<ready_queue, active_on_node, proc, starts,
                         remaining, running_processes>>
  /\ UNCHANGED <<mainVars, clockVars, max_limit, in_degree, done, threadVars, node_list, pinning,
                 remaining_tasks, scan, still_running, finished, joined,
                 observed>>

\* Lines 197-204: nothing running: sleep and continue; otherwise sleep and
\* start the polling pass over running_processes
ProcsCheck ==
  /\ command = "run-hpc" /\ pc = "check"
  /\ IF running_processes = <<>>
     THEN pc' = "loop" /\ UNCHANGED <<scan, finished, still_running>>
     ELSE /\ pc' = "poll"
          /\ scan' = running_processes
          /\ finished' = <<>>
          /\ still_running' = <<>>
  /\ UNCHANGED <<mainVars, clockVars, remaining, max_limit, in_degree, ready_queue, done,
                 threadVars, node_list, pinning, active_on_node, remaining_tasks,
                 running_processes, proc, joined, histVars>>

\* Lines 205-212: one entry of the polling pass: pipe.poll(), and recv() when
\* a signal is there; after the last entry running_processes = still_running
ProcsPoll ==
  /\ command = "run-hpc" /\ pc = "poll"
  /\ IF scan # <<>>
     THEN /\ IF PipeReady(proc[Head(scan).task])
             THEN /\ finished' = Append(finished, Head(scan))
                  /\ observed' = observed \cup {Head(scan).task}
                  /\ still_running' = still_running
             ELSE /\ still_running' = Append(still_running, Head(scan))
                  /\ UNCHANGED <<finished, observed>>
          /\ scan' = Tail(scan)
          /\ UNCHANGED <<pc, running_processes>>
     ELSE /\ running_processes' = still_running
          /\ pc' = "process"
          /\ UNCHANGED <<scan, finished, still_running, observed>>
  /\ UNCHANGED <<mainVars, clockVars, remaining, max_limit, in_degree, ready_queue, done,
                 threadVars, node_list, pinning, active_on_node, remaining_tasks,
                 proc, joined, starts>>

\* Mutant: the dispatcher goes back to the head of its loop, and so to
\* admission, after the first entry of a batch.
ProcsProcessOneEntry ==
  /\ command = "run-hpc" /\ pc = "process"
  /\ IF finished # <<>>
     THEN LET f == Head(finished)
          IN  /\ proc[f.task] = "EXITED"
              /\ joined' = joined \cup {f.task}
              /\ active_on_node' = [active_on_node EXCEPT ![f.node_id] = @ - 1]
              /\ remaining_tasks' = remaining_tasks - 1
              /\ Completion(f.task)
              /\ finished' = Tail(finished)
              /\ pc' = "loop"
     ELSE /\ pc' = "loop"
          /\ UNCHANGED <<joined, active_on_node, remaining_tasks, in_degree,
                         ready_queue, finished>>
  /\ UNCHANGED <<mainVars, clockVars, remaining, max_limit, done, threadVars,
                 node_list, pinning, running_processes, scan, still_running, proc,
                 histVars>>

\* Lines 214-221: one finished entry: proc.join() returns once the context
\* has exited, then the counters and the dependents are updated
ProcsProcess ==
  /\ command = "run-hpc" /\ pc = "process"
  /\ IF finished # <<>>
     THEN LET f == Head(finished)
          IN  /\ proc[f.task] = "EXITED"
              /\ joined' = joined \cup {f.task}
              /\ active_on_node' = [active_on_node EXCEPT ![f.node_id] = @ - 1]
              /\ remaining_tasks' = remaining_tasks - 1
              /\ Completion(f.task)
              /\ finished' = Tail(finished)
              /\ pc' = pc
     ELSE /\ pc' = "loop"
          /\ UNCHANGED <<joined, active_on_node, remaining_tasks, in_degree,
                         ready_queue, finished>>
  /\ UNCHANGED <<mainVars, clockVars, remaining, max_limit, done, threadVars, node_list, pinning,
                 running_processes, scan, still_running, proc, histVars>>

\* Lines 224-228: join what is still in running_processes, then return
ProcsCleanup ==
  /\ command = "run-hpc" /\ pc = "cleanup"
  /\ IF scan # <<>>
     THEN /\ proc[Head(scan).task] = "EXITED"
          /\ joined' = joined \cup {Head(scan).task}
          /\ scan' = Tail(scan)
          /\ UNCHANGED <<pc, stage>>
     ELSE /\ pc' = "returned"
          /\ stage' = "done"
          /\ UNCHANGED <<joined, scan>>
  /\ UNCHANGED <<command, clockVars, remaining, parseVars,
                 tasks, validated, exp, max_limit,
                 in_degree,
                 ready_queue, done, threadVars, node_list, pinning, active_on_node,
                 remaining_tasks, running_processes, still_running, finished,
                 proc, histVars>>

\* _process_worker, lines 133-134: the sleep ends and the context sends its
\* task name over the pipe
ContextSend ==
  /\ command = "run-hpc"
  /\ \E n \in DOMAIN proc :
       /\ proc[n] = "STARTED"
       /\ Slept(n)
       /\ Sleep(Get(tasks, n).duration) = "FINISHED"
       /\ proc' = [proc EXCEPT ![n] = "SENT"]
       /\ remaining' = [remaining EXCEPT ![n] = 0]
  /\ UNCHANGED <<mainVars, clockVars, loopVars, threadVars, node_list, pinning, active_on_node,
                 remaining_tasks, running_processes, scan, still_running,
                 finished, joined, histVars>>

\* _process_worker, line 135: the pipe is closed and the context exits
ContextExit ==
  /\ command = "run-hpc"
  /\ \E n \in DOMAIN proc :
       /\ proc[n] = "SENT"
       /\ proc' = [proc EXCEPT ![n] = "EXITED"]
  /\ UNCHANGED <<mainVars, clockVars, remaining, loopVars, threadVars, node_list, pinning, active_on_node,
                 remaining_tasks, running_processes, scan, still_running,
                 finished, joined, histVars>>

\* _process_worker, line 133: time.sleep raises, the context ends with a
\* traceback and has sent nothing
ContextCrash ==
  /\ command = "run-hpc"
  /\ \E n \in DOMAIN proc :
       /\ proc[n] = "STARTED"
       /\ Sleep(Get(tasks, n).duration) = "RAISED"
       /\ proc' = [proc EXCEPT ![n] = "CRASHED"]
       /\ remaining' = [remaining EXCEPT ![n] = 0]
  /\ UNCHANGED <<mainVars, clockVars, loopVars, threadVars, node_list, pinning,
                 active_on_node, remaining_tasks, running_processes, scan,
                 still_running, finished, joined, histVars>>

\* Lines 206-207 on the pipe of a context that ended without sending.  Where
\* the dispatcher's copy of the sending end is still open, poll() stays
\* false (the ELSE branch of ProcsPoll).  Where it has been closed (the
\* Process object drops its args after start, and child_conn with them),
\* poll() is true at end of file and recv() raises EOFError, which no
\* handler of scheduling.py or mytool.py catches: the command dies.
ProcsPollEOF ==
  /\ command = "run-hpc" /\ pc = "poll"
  /\ scan # <<>>
  /\ proc[Head(scan).task] = "CRASHED"
  /\ pc' = "raised"
  /\ stage' = "crashed"
  /\ UNCHANGED <<command, parseVars, tasks, validated, exp, clockVars,
                 remaining, max_limit, in_degree, ready_queue, done,
                 threadVars, procVars, histVars>>

ProcsDispatcher ==
  \/ ProcsEnter
  \/ ProcsLoop
  \/ ProcsSpawn
  \/ ProcsCheck
  \/ ProcsPoll
  \/ ProcsProcess
  \/ ProcsCleanup

\* The run-hpc command
NextProcs ==
  \/ ParseRecord(UnitDurations)
  \/ EndOfFile
  \/ Validate
  \/ Expected
  \/ ProcsDispatcher
  \/ ContextSend
  \/ ContextExit

SpecProcs == InitFor("run-hpc") /\ [][NextProcs]_vars

\* The run-hpc command over files of every kind of line, negative durations
\* among them
NextRunHpc ==
  \/ ReadFile
  \/ EndOfFile
  \/ Validate
  \/ Expected
  \/ ProcsDispatcher
  \/ ProcsPollEOF
  \/ ContextSend
  \/ ContextExit
  \/ ContextCrash

SpecRunHpc == InitFor("run-hpc") /\ [][NextRunHpc]_vars

\* The dispatcher keeps running and every context comes to its end
FairSpecRunHpc ==
  /\ SpecRunHpc
  /\ WF_vars(ProcsDispatcher)
  /\ WF_vars(ContextSend)
  /\ WF_vars(ContextExit)
  /\ WF_vars(ContextCrash)

\* What the pinning attempt of a context meets: py-libnuma or libnuma.so is
\* missing, the two calls succeed, or one of them raises
PinAttempts == {"unavailable", "succeeds", "raises"}

\* Mutant: what the pinning calls raise is not caught.
PinUncaught(attempt) ==
  CASE attempt = "unavailable" -> "UNPINNED"
    [] attempt = "succeeds" -> "PINNED"
    [] attempt = "raises" -> "RAISED"

\* _process_worker, lines 123-131: without the NUMA facilities nothing is
\* tried; otherwise set_membind_nodes and run_on_nodes are called, and
\* whatever they raise is caught and printed as a warning
Pin(attempt) ==
  CASE attempt = "unavailable" -> "UNPINNED"
    [] attempt = "succeeds" -> "PINNED"
    [] attempt = "raises" -> "WARNED"

\* _process_worker, lines 123-134 as one step: the pinning attempt, then
\* the sleep and the send; an exception that left the function would end
\* the context before the send
ContextRun ==
  /\ command = "run-hpc"
  /\ \E n \in DOMAIN proc, attempt \in PinAttempts :
       /\ proc[n] = "STARTED"
       /\ Slept(n)
       /\ pinning' = [pinning EXCEPT ![n] = Pin(attempt)]
       /\ proc' = [proc EXCEPT ![n] =
                     IF pinning'[n] = "RAISED" THEN "CRASHED"
                     ELSE IF Sleep(Get(tasks, n).duration) = "RAISED"
                          THEN "CRASHED" ELSE "SENT"]
       /\ remaining' = [remaining EXCEPT ![n] = 0]
  /\ UNCHANGED <<mainVars, clockVars, loopVars, threadVars, node_list,
                 active_on_node, remaining_tasks, running_processes, scan,
                 still_running, finished, joined, histVars>>

\* The run-hpc command, every context meeting any of the pinning outcomes
NextPinning ==
  \/ ParseRecord(UnitDurations)
  \/ EndOfFile
  \/ Validate
  \/ Expected
  \/ ProcsDispatcher
  \/ ContextRun
  \/ ContextExit

SpecPinning == InitFor("run-hpc") /\ [][NextPinning]_vars

\* mytool.py line 222: --max-procs is any integer (type=int) and goes to
\* run_tasks_multiprocessing as it is (line 278)
MaxProcsArgs == (-1)..MaxConcurrency

\* The run-hpc command with any integer for --max-procs
NextUnchecked ==
  \/ ParseRecord(UnitDurations)
  \/ EndOfFile
  \/ Validate
  \/ Expected
  \/ ProcsEnterWith(MaxProcsArgs)
  \/ ProcsLoop
  \/ ProcsSpawn
  \/ ProcsCheck
  \/ ProcsPoll
  \/ ProcsProcess
  \/ ProcsCleanup
  \/ ContextSend
  \/ ContextExit

SpecUnchecked == InitFor("run-hpc") /\ [][NextUnchecked]_vars

\* A caller other than mytool.py hands a parsed task set to a scheduler
\* without validate_and_topological_sort: the adjacency list of lines 69-76
\* is built for it, Kahn's algorithm (lines 78-91) is not run
DirectCall ==
  /\ stage = "validate"
  /\ command \in {"run", "run-hpc"}
  /\ MissingDeps(tasks) = <<>>
  /\ validated' =
       [error |-> NoError,
        adjacency_list |->
          BuildGraph(DepPairs(tasks), EmptyGraph(tasks)).adjacency_list]
  /\ stage' = "execute"
  /\ UNCHANGED <<command, parseVars, tasks, exp, schedVars>>

\* Either scheduler called on task sets that were parsed but not validated
NextDirect ==
  \/ ParseRecord(UnitDurations)
  \/ EndOfFile
  \/ DirectCall
  \/ ThreadsDispatcher
  \/ WorkerStart
  \/ WorkerFinish
  \/ ProcsDispatcher
  \/ ContextSend
  \/ ContextExit

SpecDirect ==
  (InitFor("run") \/ InitFor("run-hpc")) /\ [][NextDirect]_vars

\* The dispatchers, the pool threads and the contexts keep running
FairSpecDirect ==
  /\ SpecDirect
  /\ WF_vars(ThreadsDispatcher)
  /\ WF_vars(WorkerStart)
  /\ WF_vars(WorkerFinish)
  /\ WF_vars(ProcsDispatcher)
  /\ WF_vars(ContextSend)
  /\ WF_vars(ContextExit)

\* The three commands of mytool.py, and the schedulers called directly
NextEither ==
  \/ ParseRecord(UnitDurations)
  \/ EndOfFile
  \/ Validate
  \/ Expected
  \/ DirectCall
  \/ ThreadsDispatcher
  \/ WorkerStart
  \/ WorkerFinish
  \/ ProcsDispatcher
  \/ ContextSend
  \/ ContextExit

SpecEither ==
  /\ InitFor("validate") \/ InitFor("run") \/ InitFor("run-hpc")
  /\ [][NextEither]_vars

\* The caller, holding the (tasks, adjacency_list) of a run that has
\* returned, calls run_tasks_with_threads or run_tasks_multiprocessing with
\* them once more; the arguments are the same objects as before
RunAgain ==
  /\ stage = "done" /\ pc = "returned"
  /\ command \in {"run", "run-hpc"}
  /\ command' \in {"run", "run-hpc"}
  /\ stage' = "execute"
  /\ pc' = "idle"
  /\ UNCHANGED <<parseVars, tasks, validated, exp, max_limit, in_degree,
                 ready_queue, done, threadVars, procVars, histVars,
                 clockVars, remaining>>

\* The run and the run-hpc command, followed by any number of further calls
\* of either scheduler on the same task set
NextAgain ==
  \/ ParseRecord(UnitDurations)
  \/ EndOfFile
  \/ Validate
  \/ Expected
  \/ ThreadsDispatcher
  \/ WorkerStart
  \/ WorkerFinish
  \/ ProcsDispatcher
  \/ ContextSend
  \/ ContextExit
  \/ RunAgain

SpecAgain == (InitFor("run") \/ InitFor("run-hpc")) /\ [][NextAgain]_vars

\* One tick of the logical clock passes while some workload sleeps; the
\* steps of the dispatchers themselves are not timed
Tick ==
  /\ ticking
  /\ \E n \in DOMAIN remaining : remaining[n] > 0
  /\ now' = now + 1
  /\ remaining' = [n \in DOMAIN remaining |->
                     IF remaining[n] > 0 THEN remaining[n] - 1 ELSE 0]
  /\ UNCHANGED <<mainVars, ticking, loopVars, threadVars, procVars, histVars>>

\* Durations in ticks
TickDurations == 0..MaxTick

\* The run and the run-hpc command on the logical clock
NextTimed ==
  \/ ParseRecord(TickDurations)
  \/ EndOfFile
  \/ Validate
  \/ Expected
  \/ ThreadsDispatcher
  \/ WorkerStart
  \/ WorkerFinish
  \/ ProcsDispatcher
  \/ ContextSend
  \/ ContextExit
  \/ Tick

SpecTimed == (InitTimed("run") \/ InitTimed("run-hpc")) /\ [][NextTimed]_vars

\* A tick passes only when the thread backend has nothing to do but wait
\* for a sleep to end: submitting, starting and collecting take no time on
\* the logical clock
EagerTick ==
  /\ Tick
  /\ ~ENABLED (ThreadsDispatcher \/ WorkerStart \/ WorkerFinish)

NextThreadsEager ==
  \/ ParseRecord(TickDurations)
  \/ EndOfFile
  \/ Validate
  \/ Expected
  \/ ThreadsDispatcher
  \/ WorkerStart
  \/ WorkerFinish
  \/ EagerTick

\* The run command on the logical clock, sleeps being the only thing that
\* takes time
SpecThreadsEager == InitTimed("run") /\ [][NextThreadsEager]_vars

\* The run and the run-hpc command side by side
SpecSchedulers ==
  (InitFor("run") \/ InitFor("run-hpc")) /\ [][NextThreads \/ NextProcs]_vars

\* The dispatcher keeps running and every context sends its signal and exits
FairSpecProcs ==
  /\ SpecProcs
  /\ WF_vars(ProcsDispatcher)
  /\ WF_vars(ContextSend)
  /\ WF_vars(ContextExit)

\* ------------------------------------------------- reference definitions
\* validate has returned or raised
ValidateRan == stage \notin {"parse", "validate"} /\ parsed.error = NoError
ValidateOk == ValidateRan /\ validated.error = NoError

DepsOf(ts, n) == Range(Get(ts, n).dependencies)
AllDepsKnown(ts) == \A n \in NameSet(ts) : DepsOf(ts, n) \subseteq NameSet(ts)

\* The declared tasks n transitively depends on
RECURSIVE AncestorsUpTo(_, _, _)
AncestorsUpTo(ts, S, k) ==
  IF k = 0 THEN S
  ELSE AncestorsUpTo(ts,
         S \cup UNION {DepsOf(ts, m) \cap NameSet(ts) : m \in S}, k - 1)
Ancestors(ts, n) == AncestorsUpTo(ts, DepsOf(ts, n) \cap NameSet(ts), Len(ts))
HasCycle(ts) == \E n \in NameSet(ts) : n \in Ancestors(ts, n)

\* Position of a name in a sequence of distinct names
IndexOf(s, n) == CHOOSE i \in DOMAIN s : s[i] = n

\* A dependency chain: each task of it depends on the one before it
IsChain(ts, c) ==
  \A i \in 1..(Len(c) - 1) : c[i] \in DepsOf(ts, c[i + 1])
Chains(ts) ==
  {c \in UNION {[1..k -> NameSet(ts)] : k \in 1..Len(ts)} : IsChain(ts, c)}
RECURSIVE ChainCost(_, _)
ChainCost(ts, c) ==
  IF c = <<>> THEN 0 ELSE Get(ts, Head(c)).duration + ChainCost(ts, Tail(c))
NonNegativeDurations(ts) == \A i \in DOMAIN ts : ts[i].duration >= 0

\* ------------------------------------------------------------------ C3
\* C3: validate succeeds if and only if every referenced dependency name is
\* a task of the graph and the dependency relation has no cycle; when it
\* fails it raises an error and returns no order.
C3_ValidateIff ==
  ValidateRan =>
    /\ (validated.error = NoError) <=> (AllDepsKnown(tasks) /\ ~HasCycle(tasks))
    /\ validated.error # NoError =>
         /\ validated.error.kind \in {"unknown", "cycle"}
         /\ DOMAIN validated = {"error"}
    /\ validated.error = NoError => "topo_order" \in DOMAIN validated

\* validate rejected three tasks that depend on one another in a ring
C3_Witness ==
  /\ ValidateRan
  /\ Len(tasks) = 3
  /\ validated.error = CycleError
  /\ \A i \in DOMAIN tasks : Len(tasks[i].dependencies) = 1
  /\ \A i \in DOMAIN tasks : tasks[i].name \notin DepsOf(tasks, tasks[i].name)

\* ------------------------------------------------------------------ C4
\* C4: for a valid task set the returned topo_order holds every task name
\* exactly once and every task comes after all of its dependencies, also when
\* a task lists the same dependency more than once.
C4_TopoOrder ==
  ValidateOk =>
    LET order == validated.topo_order
    IN  /\ Len(order) = Len(tasks)
        /\ Range(order) = NameSet(tasks)
        /\ \A n \in NameSet(tasks) : \A d \in DepsOf(tasks, n) :
             IndexOf(order, d) < IndexOf(order, n)

\* a valid set in which a later task is listed first and a dependency twice
C4_Witness ==
  /\ ValidateOk
  /\ Len(tasks) = 2
  /\ tasks[1].dependencies = <<"B", "B">>
  /\ validated.topo_order = <<"B", "A">>

\* ------------------------------------------------------------------ C5
\* C5 as stated: every task set with a dependency cycle, whatever else is
\* wrong with it, fails with the cycle error.
C5_Original ==
  (ValidateRan /\ HasCycle(tasks)) => validated.error = CycleError

\* C5 amended: a task set with a dependency cycle always fails; it fails with
\* the cycle error when every referenced dependency is declared, and
\* otherwise with an unknown-dependency error that names a dependency which
\* really is undeclared.
C5_CycleError ==
  (ValidateRan /\ HasCycle(tasks)) =>
    /\ AllDepsKnown(tasks) => validated.error = CycleError
    /\ ~AllDepsKnown(tasks) =>
         /\ validated.error.kind = "unknown"
         /\ validated.error.dep \notin NameSet(tasks)
         /\ validated.error.dep \in DepsOf(tasks, validated.error.task)

\* a root task followed by a task that depends on itself
C5_Witness ==
  /\ ValidateRan
  /\ Len(tasks) = 2
  /\ tasks[1].dependencies = <<>>
  /\ tasks[2].dependencies = <<"B">>
  /\ validated.error = CycleError

\* ------------------------------------------------------------------ C6
\* The first unknown reference: first task in insertion order that has one,
\* then the first such entry of its dependency list
FirstUnknown(ts) ==
  LET bad(i) == {j \in DOMAIN ts[i].dependencies :
                   ts[i].dependencies[j] \notin NameSet(ts)}
      i0 == CHOOSE i \in DOMAIN ts :
              bad(i) # {} /\ \A k \in DOMAIN ts : bad(k) # {} => i <= k
      j0 == CHOOSE j \in bad(i0) : \A k \in bad(i0) : j <= k
  IN  [task |-> ts[i0].name, dep |-> ts[i0].dependencies[j0]]

\* C6: when some task references an undeclared dependency, validate fails
\* with the unknown-dependency error naming the first such reference: first
\* in task insertion order, then in dependency-list order.
C6_UnknownDependency ==
  (ValidateRan /\ ~AllDepsKnown(tasks)) =>
    validated.error =
      UnknownError(FirstUnknown(tasks).task, FirstUnknown(tasks).dep)

\* two tasks with unknown references; the first one's second entry is reported
C6_Witness ==
  /\ ValidateRan
  /\ Len(tasks) = 2
  /\ tasks[1].dependencies = <<"B", "Z">>
  /\ tasks[2].dependencies = <<"C">>
  /\ validated.error = UnknownError("A", "Z")

\* ------------------------------------------------------------------ C7
\* C7: for a valid DAG compute_expected_runtime returns the largest cost of a
\* dependency chain that starts at a task without dependencies; with
\* non-negative durations that is the largest cost over all dependency
\* chains, the critical-path length.
C7_CriticalPath ==
  (ValidateOk /\ stage \in {"done", "execute"}) =>
    /\ exp.value =
         Max({ChainCost(tasks, c) :
                c \in {x \in Chains(tasks) : DepsOf(tasks, x[1]) = {}}})
    /\ NonNegativeDurations(tasks) =>
         exp.value = Max({ChainCost(tasks, c) : c \in Chains(tasks)})

\* the chain A -> B -> C with durations 1, 2, 3 has expected runtime 6
C7_Witness ==
  /\ stage = "done"
  /\ tasks = <<Task("A", 1, <<>>), Task("B", 2, <<"A">>), Task("C", 3, <<"B">>)>>
  /\ exp.value = 6

\* ------------------------------------------------------------------ C1
\* C1: thread backend: a task's workload has started only if the dispatcher
\* has already obtained, from wait, the completion of every dependency of
\* that task.
C1_ThreadsCausalOrder ==
  command = "run" =>
    \A n \in DOMAIN starts :
      starts[n] > 0 => DepsOf(tasks, n) \subseteq observed

\* the chain A -> B -> C with C's workload running
C1_Witness ==
  /\ command = "run"
  /\ Len(tasks) = 3
  /\ tasks[2].dependencies = <<"A">>
  /\ tasks[3].dependencies = <<"B">>
  /\ pc = "wait"
  /\ future["C"] = "RUNNING"

\* ------------------------------------------------------------------ C8
ThreadsAllDone ==
  /\ \A n \in NameSet(tasks) :
       starts[n] = 1 /\ future[n] = "FINISHED" /\ n \in observed
  /\ ready_queue = <<>>
  /\ running_futures = {}
  /\ work_queue = <<>>
  /\ done = {}

\* C8: thread backend, every workload ending: once the scheduler is entered
\* the dispatch loop terminates, and when it has, every task has run exactly
\* once, the readiness queue is empty and no work handle is outstanding.
C8_ThreadsTerminate ==
  /\ (command = "run" /\ stage = "execute") ~> (pc = "returned")
  /\ [](command = "run" /\ pc = "returned" => ThreadsAllDone)

\* a run over three tasks, the last with two dependencies, on one worker
C8_Witness ==
  /\ command = "run"
  /\ pc = "returned"
  /\ max_limit = 1
  /\ Len(tasks) = 3
  /\ tasks[3].dependencies = <<"A", "B">>
  /\ ThreadsAllDone

\* ------------------------------------------------------------------ C2
\* C2: process backend: a context has been launched for a task only if the
\* dispatcher has already received the completion signal of every dependency
\* of that task.
C2_ProcsCausalOrder ==
  command = "run-hpc" =>
    \A n \in DOMAIN starts :
      starts[n] > 0 => DepsOf(tasks, n) \subseteq observed

\* the chain A -> B -> C with C's context launched and not yet polled
C2_Witness ==
  /\ command = "run-hpc"
  /\ Len(tasks) = 3
  /\ tasks[2].dependencies = <<"A">>
  /\ tasks[3].dependencies = <<"B">>
  /\ pc = "poll"
  /\ proc["C"] = "STARTED"

\* ------------------------------------------------------------------ C9
ProcsAllDone ==
  /\ remaining_tasks = 0
  /\ \A n \in NameSet(tasks) :
       /\ starts[n] = 1
       /\ proc[n] = "EXITED"
       /\ n \in observed
       /\ n \in joined
  /\ running_processes = <<>>
  /\ ready_queue = <<>>
  /\ finished = <<>>

\* C9: process backend, every context sending its signal: once the scheduler
\* is entered the dispatch loop terminates, and when the function has
\* returned the remaining-task counter is zero, every task was launched and
\* completed exactly once and every launched context has been joined.
C9_ProcsTerminate ==
  /\ (command = "run-hpc" /\ stage = "execute") ~> (pc = "returned")
  /\ [](command = "run-hpc" /\ pc = "returned" => ProcsAllDone)

\* a run over three tasks, the last with two dependencies, one slot, two domains
C9_Witness ==
  /\ command = "run-hpc"
  /\ pc = "returned"
  /\ max_limit = 1
  /\ Len(node_list) = 2
  /\ Len(tasks) = 3
  /\ tasks[3].dependencies = <<"A", "B">>
  /\ ProcsAllDone

\* ------------------------------------------------------------------ C10
\* Contexts launched whose completion the dispatcher has not yet processed
Outstanding == {n \in DOMAIN proc : proc[n] # "NONE" /\ n \notin joined}
Launched(n) == pc # "idle" /\ starts'[n] > starts[n]

\* C10: process backend: never more than max_procs contexts are outstanding;
\* a step launches a task only when fewer than max_procs are outstanding, and
\* at the limit the admission step leaves the readiness queue as it is.
C10_BoundedContexts ==
  /\ [](command = "run-hpc" => Cardinality(Outstanding) <= max_limit)
  /\ [][command = "run-hpc" =>
          /\ \A n \in DOMAIN starts :
               Launched(n) => Cardinality(Outstanding) < max_limit
          /\ (pc = "spawn" /\ Cardinality(Outstanding) >= max_limit) =>
               (ready_queue' = ready_queue /\ starts' = starts)]_vars

\* three ready roots and one slot: one is launched, the admission loop has
\* stopped at the limit and two stay queued
C10_Witness ==
  /\ command = "run-hpc"
  /\ pc = "check"
  /\ max_limit = 1
  /\ Cardinality(Outstanding) = 1
  /\ ready_queue = <<"B", "C">>

\* ------------------------------------------------------------------ C11
\* C11: thread backend: at most max_workers workloads are executing on pool
\* threads at any time.
C11_ThreadsRunningBound ==
  command = "run" => Cardinality(Running) <= max_limit

\* three roots on two workers: two workloads run and the third work item
\* waits in the executor's queue
C11_Witness ==
  /\ command = "run"
  /\ max_limit = 2
  /\ Cardinality(Running) = 2
  /\ work_queue = <<"C">>

\* ------------------------------------------------------------------ C12
\* C12 as stated: the dispatcher never holds more than max_workers work
\* handles, the excess READY tasks staying in the readiness queue.
C12_Original ==
  command = "run" => Cardinality(running_futures) <= max_limit

\* C12 amended: in every dispatch iteration the dispatcher submits every
\* queued READY task, so the readiness queue is empty whenever it waits and
\* running_futures holds a handle for every submitted, not yet observed task,
\* however many; the bound is kept by the pool: the handles beyond the
\* max_workers running ones are PENDING work items in the executor's queue.
C12_SubmitsAll ==
  (command = "run" /\ pc = "wait") =>
    /\ ready_queue = <<>>
    /\ running_futures = {n \in DOMAIN future : future[n] # "NONE"} \ observed
    /\ Range(work_queue) = {n \in running_futures : future[n] = "PENDING"}
    /\ Cardinality(running_futures \ Range(work_queue)) - max_limit
         <= Cardinality({n \in running_futures : future[n] = "FINISHED"})

\* three roots, one worker: the dispatcher waits holding three handles
C12_Witness ==
  /\ command = "run"
  /\ pc = "wait"
  /\ max_limit = 1
  /\ Cardinality(running_futures) = 3
  /\ Len(work_queue) = 2

\* ------------------------------------------------------------------ C13
\* C13: process backend: every launch picks a domain whose active count is
\* smallest, the first such in enumeration order, adds one to that domain's
\* count and leaves the count of every other domain as it was.
C13_LeastLoadedPlacement ==
  [][(command = "run-hpc" /\ \E n \in DOMAIN starts : Launched(n)) =>
       \E i \in DOMAIN node_list :
         /\ \A j \in DOMAIN node_list :
              /\ active_on_node[node_list[i]] <= active_on_node[node_list[j]]
              /\ j < i =>
                   active_on_node[node_list[i]] < active_on_node[node_list[j]]
         /\ active_on_node' =
              [active_on_node EXCEPT ![node_list[i]] = @ + 1]
         /\ running_processes'[Len(running_processes')].node_id = node_list[i]]_vars

\* A on domain 0 and B on domain 1 (a tie, then the emptier one); A is done
\* and C, which waited for A, has been placed on domain 0 again
C13_Witness ==
  /\ command = "run-hpc"
  /\ running_processes = <<Entry("B", 1), Entry("C", 0)>>
  /\ "A" \in joined
  /\ active_on_node = [nid \in {0, 1} |-> 1]

\* ------------------------------------------------------------------ C14
CeilDiv(m, n) == (m + n - 1) \div n

\* C14: process backend: with N domains and a task set of M tasks without
\* any dependency, M <= max_procs, no domain's active count ever exceeds
\* ceil(M / N).
C14_AdmissionBalance ==
  (command = "run-hpc" /\ pc # "idle" /\ TotalDeps(tasks) = 0
     /\ Len(tasks) <= max_limit) =>
    \A nid \in DOMAIN active_on_node :
      active_on_node[nid] <= CeilDiv(Len(tasks), Len(node_list))

\* three independent tasks admitted at once to two domains: counts 2 and 1
C14_Witness ==
  /\ command = "run-hpc"
  /\ TotalDeps(tasks) = 0
  /\ Len(tasks) = 3
  /\ max_limit = 3
  /\ Len(running_processes) = 3
  /\ active_on_node = (0 :> 2) @@ (1 :> 1)

\* ------------------------------------------------------------------ C16
Ignored(line) == line.kind \in {"blank", "comment"}
IsInteger(s) == \E d \in -9..9 : s = Literal(d)
Min(S) == CHOOSE x \in S : \A y \in S : x <= y

\* line i is a record line with fewer than two fields, a duration that is
\* not an integer, or the name of an earlier record line
Offending(lines, i) ==
  /\ ~Ignored(lines[i])
  /\ \/ lines[i].nparts < 2
     \/ ~IsInteger(lines[i].duration)
     \/ \E j \in 1..(i - 1) :
          /\ ~Ignored(lines[j])
          /\ lines[j].nparts >= 2
          /\ lines[j].name = lines[i].name

\* C16: parse_tasks over the lines it has read: ignored lines give no task
\* but are counted; at the first offending line parse fails, citing the
\* number of that line among all lines, and no task set is returned;
\* without an offending line the task set has one task per record line, in
\* file order, with the line's name, the integer its duration field
\* denotes, and its dependency words.
C16_Parse ==
  LET bad == {i \in DOMAIN file : Offending(file, i)}
      records == SelectSeq(file, LAMBDA l : ~Ignored(l))
  IN  /\ line_num = Len(file)
      /\ IF bad # {}
         THEN /\ stage = "error"
              /\ parsed.error.kind = "parse"
              /\ parsed.error.line = Min(bad)
              /\ Min(bad) = Len(file)
              /\ tasks = <<>>
         ELSE /\ parsed.error = NoError
              /\ Len(tasks) = Len(records)
              /\ \A k \in DOMAIN records :
                   /\ tasks[k].name = records[k].name
                   /\ records[k].duration = Literal(tasks[k].duration)
                   /\ tasks[k].dependencies = records[k].deps

\* a comment, a record for A and a second record for A: the error cites
\* line 3
C16_Witness ==
  /\ Len(file) = 3
  /\ file[1] = CommentLine
  /\ file[2] = RecordLine("A", Literal(2), <<>>)
  /\ file[3] = RecordLine("A", Literal(-1), <<"B", Undeclared>>)
  /\ parsed.error = ParseError(3, "duplicate")
  /\ stage = "error"

\* ------------------------------------------------------------------ C15
Started == {n \in DOMAIN starts : starts[n] > 0}

\* C15: in the run flow a run that ends with a parse or validation error
\* has started no task.
C15_ErrorsBeforeExecution ==
  (command = "run" /\ stage = "error") => Started = {}

\* ------------------------------------------------------------------ C17
\* C17: a task set that parse and validate accepted and that is handed to
\* a scheduler has non-negative durations only.
C17_NonNegativeAtHandOver ==
  pc # "idle" => NonNegativeDurations(tasks)

\* ------------------------------------------------------------------ C18
\* C18 as stated: before any execution the in_degree table that validate
\* returns gives every task its number of declared dependencies.
C18_Original ==
  (ValidateOk /\ pc = "idle") =>
    \A n \in NameSet(tasks) :
      validated.in_degree[n] = Len(Get(tasks, n).dependencies)

\* The tasks whose completion the dispatcher has processed
Processed == IF command = "run" THEN observed \ done ELSE joined

\* C18 amended: the table validate returns has been consumed by Kahn's
\* algorithm and gives 0 for every task of a valid task set; each scheduler
\* counts the declared dependency entries anew, and during execution its
\* own table gives every task the number of its dependency entries whose
\* completion has not been processed yet.
C18_FreshTable ==
  /\ ValidateOk => \A n \in NameSet(tasks) : validated.in_degree[n] = 0
  /\ pc # "idle" =>
       \A n \in NameSet(tasks) :
         in_degree[n] =
           Cardinality({i \in DOMAIN Get(tasks, n).dependencies :
                          Get(tasks, n).dependencies[i] \notin Processed})

\* B waits for A in the scheduler's table while validate's table has 0 for it
C18_Witness ==
  /\ ValidateOk
  /\ pc # "idle"
  /\ "B" \in NameSet(tasks)
  /\ Get(tasks, "B").dependencies = <<"A">>
  /\ in_degree["B"] = 1
  /\ validated.in_degree["B"] = 0
  /\ Started = {"A"}

\* ------------------------------------------------------------------ C19
\* The task set with the duration of its i-th task replaced by d
WithDuration(ts, i, d) == [ts EXCEPT ![i].duration = d]

\* C19: for a valid task set, replacing the duration of any one task by a
\* larger one, the dependencies and the other durations kept, never gives
\* a smaller compute_expected_runtime.
C19_Monotone ==
  (ValidateOk /\ stage = "done") =>
    \A i \in DOMAIN tasks, d \in Durations :
      d > tasks[i].duration =>
        compute_expected_runtime(WithDuration(tasks, i, d),
                                 validated.topo_order).value >= exp.value

\* C waits for A (1) and B (3): a longer C or B raises the expected runtime,
\* a longer A, off the critical path, leaves it as it is
C19_Witness ==
  /\ ValidateOk /\ stage = "done"
  /\ Len(tasks) = 3
  /\ tasks[1].duration = 1 /\ tasks[2].duration = MaxDur
  /\ tasks[3] = Task("C", 0, <<"A", "B">>)
  /\ exp.value = MaxDur
  /\ compute_expected_runtime(WithDuration(tasks, 1, 2),
                              validated.topo_order).value = exp.value
  /\ compute_expected_runtime(WithDuration(tasks, 3, 1),
                              validated.topo_order).value > exp.value

\* ------------------------------------------------------------------ C20
\* The workload of task n has run to its end
Completed(n) ==
  IF command = "run" THEN future[n] = "FINISHED"
  ELSE proc[n] \in {"SENT", "EXITED"}

\* C20: on the logical clock, with either backend and every limit >= 1, no
\* task's workload ends before the task's earliest-finish time, and once
\* the last one has ended the clock is at compute_expected_runtime or later.
C20_LowerBound ==
  (ticking /\ pc # "idle") =>
    LET earliest_finish == EarliestFinish(tasks, validated.topo_order, <<>>)
    IN  /\ \A n \in NameSet(tasks) : Completed(n) => now >= earliest_finish[n]
        /\ (\A n \in NameSet(tasks) : Completed(n)) => now >= exp.value

\* A (2 ticks) beside B (1) and then C (1, after B) on two processes: all
\* three have ended at tick 2, the expected runtime
C20_Witness ==
  /\ ticking /\ command = "run-hpc" /\ max_limit = 2
  /\ tasks = <<Task("A", 2, <<>>), Task("B", 1, <<>>), Task("C", 1, <<"B">>)>>
  /\ \A n \in NameSet(tasks) : Completed(n)
  /\ exp.value = 2
  /\ now = 2

\* ------------------------------------------------------------------ C21
\* The run is about a task set without dependencies, max_workers being at
\* least the number of tasks
IndependentWithinLimit ==
  /\ command = "run" /\ ticking /\ pc # "idle"
  /\ TotalDeps(tasks) = 0
  /\ Len(tasks) <= max_limit

\* C21: thread backend, no dependencies, max_workers >= number of tasks:
\* the first dispatch iteration submits every task, all workloads have been
\* started before the first tick passes, and the call returns at tick
\* max(durations).
C21_ThreadsMaxOfDurations ==
  IndependentWithinLimit =>
    /\ (pc = "wait" /\ observed = {}) => running_futures = NameSet(tasks)
    /\ now > 0 => Started = NameSet(tasks)
    /\ pc = "returned" =>
         now = Max({tasks[i].duration : i \in DOMAIN tasks})

\* durations 1, 2 and 2 on three workers: returned at tick 2, not 5
C21_Witness ==
  /\ IndependentWithinLimit
  /\ pc = "returned"
  /\ Len(tasks) = 3 /\ max_limit = 3
  /\ tasks[1].duration = 1 /\ tasks[2].duration = 2 /\ tasks[3].duration = 2
  /\ now = 2

\* ------------------------------------------------------------------ C22
\* C22: for the file A,1 / B,1,A / C,1,A / D,1,B C parse returns the four
\* tasks, validate succeeds with a topological order that starts with A and
\* ends with D, and compute_expected_runtime returns 3.
C22_Scenario ==
  file = ScenarioFile =>
    /\ parsed.error = NoError
    /\ Keys(tasks) = <<"A", "B", "C", "D">>
    /\ \A i \in DOMAIN tasks :
         /\ tasks[i].duration = 1
         /\ tasks[i].dependencies = ScenarioFile[i].deps
    /\ stage # "error"
    /\ ValidateRan =>
         /\ validated.error = NoError
         /\ Len(validated.topo_order) = 4
         /\ validated.topo_order[1] = "A"
         /\ validated.topo_order[4] = "D"
    /\ stage = "done" => exp = [error |-> NoError, value |-> 3]

C22_Witness ==
  /\ file = ScenarioFile
  /\ stage = "done"
  /\ validated.topo_order \in {<<"A", "B", "C", "D">>, <<"A", "C", "B", "D">>}
  /\ exp.value = 3

\* ------------------------------------------------------------------ C23
\* C23: whichever backend runs a validated task set, with whatever limit:
\* no workload is started twice, a workload never ends before those of all
\* the task's dependencies have ended (so the order of completions is a
\* linear extension of the dependency relation), and when the backend
\* returns, the workload of every task has run, once.
C23_Interchangeable ==
  pc # "idle" =>
    \A n \in NameSet(tasks) :
      /\ starts[n] <= 1
      /\ Completed(n) =>
           /\ starts[n] = 1
           /\ \A d \in DepsOf(tasks, n) : Completed(d)
      /\ stage = "done" => Completed(n)

\* the process backend has returned from A, B and C-after-A-and-B, while
\* the thread backend was as free to run the same task set
C23_Witness ==
  /\ command = "run-hpc"
  /\ stage = "done"
  /\ Len(tasks) = 3
  /\ tasks[3].dependencies = <<"A", "B">>
  /\ \A n \in NameSet(tasks) : Completed(n) /\ starts[n] = 1

\* ------------------------------------------------------------------ C24
\* The entries (p, parent_conn, node_id) the dispatcher holds
AllEntries ==
  Range(running_processes) \cup Range(scan) \cup Range(still_running)
    \cup Range(finished)

\* The contexts on domain nid that have not crashed and are not joined yet
LiveOn(nid) ==
  {e \in AllEntries :
     e.node_id = nid /\ e.task \notin joined /\ proc[e.task] # "CRASHED"}

\* C24: process backend: once a context has crashed, a state is reached in
\* which no domain's active_count counts it any more.
C24_CrashReleased ==
  (command = "run-hpc" /\ \E n \in DOMAIN proc : proc[n] = "CRASHED")
    ~> (\A nid \in DOMAIN active_on_node :
          active_on_node[nid] <= Cardinality(LiveOn(nid)))

\* ------------------------------------------------------------------ C25
\* The step admits a task: the thread dispatcher submits it, the process
\* dispatcher launches its context
Admits ==
  \/ /\ command = "run"
     /\ \E n \in DOMAIN future : future[n] = "NONE" /\ future'[n] = "PENDING"
  \/ /\ command = "run-hpc"
     /\ \E n \in DOMAIN starts : Launched(n)

\* Every completion the dispatcher has detected is applied in full
BatchApplied ==
  /\ done = {} /\ finished = <<>>
  /\ Processed = observed
  /\ \A n \in NameSet(tasks) :
       in_degree[n] =
         Cardinality({i \in DOMAIN Get(tasks, n).dependencies :
                        Get(tasks, n).dependencies[i] \notin observed})
  /\ command = "run-hpc" =>
       /\ remaining_tasks = Len(tasks) - Cardinality(observed)
       /\ \A nid \in DOMAIN active_on_node :
            active_on_node[nid] =
              Cardinality({i \in DOMAIN running_processes :
                             running_processes[i].node_id = nid})

\* C25: in both backends a task is admitted only when every update of every
\* completion detected so far has been applied: never between the first
\* and the last update of a batch.
C25_BatchBeforeAdmission ==
  [][Admits => BatchApplied]_vars

\* A and B were detected in one polling pass; A's updates have made C ready
\* and there is room for it, yet B's updates come first
C25_Witness ==
  /\ command = "run-hpc" /\ pc = "process"
  /\ joined = {"A"}
  /\ Len(finished) = 1 /\ finished[1].task = "B"
  /\ ready_queue = <<"C">>
  /\ HasCapacity(running_processes, max_limit)

\* ------------------------------------------------------------------ C26
\* The contexts that are running their workload
Sleeping == {n \in DOMAIN proc : proc[n] = "STARTED"}

\* C26: process backend: without NUMA discovery the domains are the single
\* domain 0, without max_procs the limit is the number of domains, and a run
\* with both defaults never has more than one context outstanding: a context
\* is launched only when the one before it has been joined.
C26_Defaults ==
  /\ \A max_node \in 0..(MaxNodes - 1) :
       /\ NodeList(FALSE, max_node) = <<0>>
       /\ DefaultProcs(None, NodeList(TRUE, max_node)) = max_node + 1
       /\ DefaultProcs(None, NodeList(FALSE, max_node)) = 1
  /\ ( /\ command = "run-hpc" /\ pc # "idle"
       /\ node_list = NodeList(FALSE, 0)
       /\ max_limit = DefaultProcs(None, node_list) ) =>
       /\ Cardinality(Outstanding) <= 1
       /\ Cardinality(Sleeping) <= 1
       /\ \A n \in Sleeping : \A m \in DOMAIN proc \ {n} :
            proc[m] = "NONE" \/ m \in joined

\* three independent tasks with both defaults: A is joined, B runs, C waits
\* in the readiness queue
C26_Witness ==
  /\ command = "run-hpc"
  /\ node_list = <<0>> /\ max_limit = 1
  /\ TotalDeps(tasks) = 0 /\ Len(tasks) = 3
  /\ joined = {"A"}
  /\ proc = [n \in {"A", "B", "C"} |->
               IF n = "A" THEN "EXITED" ELSE IF n = "B" THEN "STARTED" ELSE "NONE"]
  /\ ready_queue = <<"C">>

\* ------------------------------------------------------------------ C27
\* The state of task n, read off the queues and handles of the dispatcher: a
\* task whose work item waits in the executor's queue is still READY, a task
\* is DONE as soon as its workload has ended
TaskState(n) ==
  IF pc = "idle" THEN "PENDING"
  ELSE LET handle == IF command = "run" THEN future[n] ELSE proc[n]
       IN  IF handle = "NONE"
           THEN IF n \in Range(ready_queue) THEN "READY" ELSE "PENDING"
           ELSE IF handle = "PENDING" THEN "READY"
           ELSE IF handle \in {"RUNNING", "STARTED"} THEN "RUNNING"
           ELSE "DONE"

StateRank == [PENDING |-> 0, READY |-> 1, RUNNING |-> 2, DONE |-> 3]

\* C27: in both backends every step leaves a task in its state or moves it
\* to the next one of PENDING, READY, RUNNING, DONE; no workload is started
\* a second time.
C27_TaskStateMachine ==
  [][stage = "execute" =>
       \A n \in NameSet(tasks) :
         /\ StateRank[TaskState(n)'] - StateRank[TaskState(n)] \in {0, 1}
         /\ starts'[n] <= 1]_vars

\* A is DONE, B RUNNING, C, which waits for B, PENDING
C27_Witness ==
  /\ stage = "execute" /\ pc # "idle"
  /\ Len(tasks) = 3
  /\ tasks[3].dependencies = <<"B">>
  /\ TaskState("A") = "DONE"
  /\ TaskState("B") = "RUNNING"
  /\ TaskState("C") = "PENDING"

\* ------------------------------------------------------------------ C28
\* How often name n occurs in queue q
Occurrences(q, n) == Cardinality({i \in DOMAIN q : q[i] = n})

\* The handle of task n: its future or its context
Handle(n) == IF command = "run" THEN future[n] ELSE proc[n]

\* C28: in both backends, throughout a run: the in_degree of a task is the
\* number of its dependency entries, repeated ones counted each, whose
\* completion has not been processed, and never negative; the tasks with
\* counter zero are those that are on the readiness queue or have been
\* admitted from it; no task is on the queue twice or again after admission.
C28_InDegreeAndReadiness ==
  pc # "idle" =>
    \A n \in NameSet(tasks) :
      /\ in_degree[n] =
           Cardinality({i \in DOMAIN Get(tasks, n).dependencies :
                          Get(tasks, n).dependencies[i] \notin Processed})
      /\ in_degree[n] >= 0
      /\ in_degree[n] = 0 <=> (n \in Range(ready_queue) \/ Handle(n) # "NONE")
      /\ Occurrences(ready_queue, n) <= 1
      /\ n \in Range(ready_queue) => Handle(n) = "NONE"

\* B lists A twice: both entries were counted down when A's completion was
\* processed, and B is on the readiness queue once
C28_Witness ==
  /\ pc # "idle"
  /\ Len(tasks) = 2
  /\ tasks[2].dependencies = <<"A", "A">>
  /\ "A" \in Processed
  /\ in_degree["B"] = 0
  /\ ready_queue = <<"B">>

\* ------------------------------------------------------------------ C29
\* The outstanding contexts that were placed on domain nid
OutstandingOn(nid) ==
  {e \in AllEntries : e.node_id = nid /\ e.task \notin joined}

ActiveCountsExact ==
  (command = "run-hpc" /\ pc # "idle") =>
    \A nid \in DOMAIN active_on_node :
      /\ active_on_node[nid] = Cardinality(OutstandingOn(nid))
      /\ active_on_node[nid] >= 0
      /\ pc = "loop" =>
           OutstandingOn(nid) =
             {e \in Range(running_processes) : e.node_id = nid}
      /\ pc = "returned" => active_on_node[nid] = 0

\* A step that lowers a count joins one exited context and lowers by one
\* the count of the domain that context was placed on, and no other
ReleaseOnJoin ==
  (command = "run-hpc" /\ pc # "idle" /\ active_on_node' # active_on_node
     /\ \E nid \in DOMAIN active_on_node :
          active_on_node'[nid] < active_on_node[nid]) =>
    \E e \in AllEntries :
      /\ proc[e.task] = "EXITED"
      /\ e.task \notin joined
      /\ joined' = joined \cup {e.task}
      /\ active_on_node' = [active_on_node EXCEPT ![e.node_id] = @ - 1]

\* C29: process backend: the active_count of every domain is the number of
\* outstanding contexts placed on it, at every loop boundary those of
\* running_processes; a detected completion joins the context and lowers
\* the count of the context's own domain by one; no count is negative, and
\* all are zero when the run returns.
C29_ActiveCounts ==
  []ActiveCountsExact /\ [][ReleaseOnJoin]_vars

\* A was placed on domain 0 and B on domain 1; A is joined and its domain
\* is free again, B is still out
C29_Witness ==
  /\ command = "run-hpc" /\ pc = "loop"
  /\ joined = {"A"}
  /\ running_processes = <<Entry("B", 1)>>
  /\ active_on_node = (0 :> 0) @@ (1 :> 1)

\* ------------------------------------------------------------------ C30
\* The futures the dispatcher holds that are done
DoneFutures == {n \in running_futures : FutureDone(future[n])}

\* The waiting dispatcher can go on as soon as one of its futures is done
WaitResumable ==
  (command = "run" /\ pc = "wait" /\ DoneFutures # {}) => ENABLED ThreadsWait

\* wait returns the futures that are done, one at least, and keeps the
\* others, however many and whichever were submitted first
WaitTakesDone ==
  (command = "run" /\ pc = "wait" /\ pc' = "process") =>
    /\ done' = DoneFutures
    /\ done' # {}
    /\ running_futures' = running_futures \ DoneFutures

\* C30: thread backend: the dispatcher's wait ends as soon as any one of
\* the outstanding futures is done and hands over just the done ones; it
\* does not wait for the others.
C30_AnyOfWait ==
  []WaitResumable /\ [][WaitTakesDone]_vars

\* A and B were submitted in this order; B is done and processed and C,
\* which waited for B, has been admitted and runs while A is still running
C30_Witness ==
  /\ command = "run"
  /\ Len(tasks) = 3
  /\ tasks[1].dependencies = <<>> /\ tasks[2].dependencies = <<>>
  /\ tasks[3].dependencies = <<"B">>
  /\ DOMAIN future = {"A", "B", "C"}
  /\ future["A"] = "RUNNING"
  /\ future["B"] = "FINISHED" /\ "B" \in Processed
  /\ future["C"] = "RUNNING"
  /\ running_futures = {"A", "C"}

\* ------------------------------------------------------------------ C31
\* The state the dispatcher owns
SchedulerState == <<in_degree, ready_queue, remaining_tasks, active_on_node>>

\* The tasks of the running scheduler
Handles == IF command = "run" THEN DOMAIN future ELSE DOMAIN proc

\* The states a future or a context is put into by the worker thread or
\* the context itself
WorkerStates == {"RUNNING", "FINISHED", "RAISED", "SENT", "EXITED", "CRASHED"}

\* A step of a worker thread or of an isolated context
WorkerStep ==
  \E n \in Handles : Handle(n)' # Handle(n) /\ Handle(n)' \in WorkerStates

\* The completion signal of task n exists: the future holds the task name
\* its worker returned, or the context has sent the task name
Signalled(n) == Handle(n) \in {"FINISHED", "SENT", "EXITED"}

\* A worker step that signals comes from the running workload of that task,
\* which was started once, and touches no other task's handle
SignalsOwnTask ==
  \A n \in Handles :
    (~Signalled(n) /\ Signalled(n)') =>
      /\ Handle(n) \in {"RUNNING", "STARTED"}
      /\ starts[n] = 1
      /\ \A m \in Handles \ {n} : Handle(m)' = Handle(m)

\* A signal once given stays: no task signals a second time
SignalKept == \A n \in Handles : Signalled(n) => Signalled(n)'

\* By the time the scheduler returns every task has signalled
AllSignalled ==
  (pc = "returned" /\ stage = "done") => \A n \in Handles : Signalled(n)

\* C31: in both backends no step of a worker thread or isolated context
\* changes in_degree, the readiness queue, the remaining-task counter or
\* the domains' active counts, so only dispatcher steps do; such a step
\* only moves its own task's handle, and each task's completion signal is
\* produced once (workloads that end normally).
C31_SingleWriter ==
  /\ [][WorkerStep => (UNCHANGED SchedulerState /\ SignalsOwnTask)]_vars
  /\ [][SignalKept]_vars
  /\ []AllSignalled

\* The worker of A has returned; the dispatcher has not yet collected the
\* future, and B, which waits for A, still has its full in-degree
C31_Witness ==
  /\ command = "run"
  /\ DOMAIN future = {"A", "B"}
  /\ tasks[2].dependencies = <<"A">>
  /\ future["A"] = "FINISHED"
  /\ "A" \notin observed
  /\ in_degree["B"] = 1
  /\ ready_queue = <<>>

\* ------------------------------------------------------------------ C32
\* The tasks a step admits: submitted to the pool or launched in a context
AdmittedNow ==
  {n \in Handles : Handle(n) = "NONE" /\ Handle(n)' \in {"PENDING", "STARTED"}}

\* The tasks whose completion a step processes
ProcessedNow ==
  IF pc # "process" THEN {}
  ELSE IF command = "run" THEN done \ done'
  ELSE IF finished # <<>> /\ finished' # finished THEN {Head(finished).task}
  ELSE {}

\* What a step has put at the end of the readiness queue
Enqueued == SubSeq(ready_queue', Len(ready_queue) + 1, Len(ready_queue'))

\* s lists its elements once each, ordered by rank
OrderedBy(s, rank(_)) ==
  \A i, j \in DOMAIN s : i < j => s[i] # s[j] /\ rank(s[i]) < rank(s[j])

\* Where n is listed last in s
LastIndex(s, n) == Max({i \in DOMAIN s : s[i] = n})

\* An admission takes the head of the queue and nothing else
AdmitsHead ==
  AdmittedNow # {} =>
    /\ ready_queue # <<>>
    /\ AdmittedNow = {Head(ready_queue)}
    /\ ready_queue' = Tail(ready_queue)

\* On entry the queue holds the tasks without dependencies in the order of
\* the task set
RootsInOrder ==
  (pc = "idle" /\ pc' # "idle") =>
    /\ Range(ready_queue') =
         {n \in NameSet(tasks) : Get(tasks, n).dependencies = <<>>}
    /\ OrderedBy(ready_queue', LAMBDA n : IndexOf(Keys(tasks), n))

\* A processed completion leaves the queue as it was and adds the
\* dependents that are left without unfinished dependency, in the order of
\* the finished task's adjacency list
DependentsInOrder ==
  \A f \in ProcessedNow :
    LET adj == validated.adjacency_list[f]
    IN  /\ Len(ready_queue') >= Len(ready_queue)
        /\ SubSeq(ready_queue', 1, Len(ready_queue)) = ready_queue
        /\ Range(Enqueued) = {n \in Range(adj) : in_degree'[n] = 0}
        /\ OrderedBy(Enqueued, LAMBDA n : LastIndex(adj, n))

\* No other step touches the queue
QueueKept ==
  (AdmittedNow = {} /\ ProcessedNow = {} /\ pc # "idle") =>
    ready_queue' = ready_queue

\* C32: in both backends the readiness queue is first-in first-out: tasks
\* enter at its end only (the roots in task insertion order on entry, the
\* dependents released by one completion in adjacency-list order) and
\* the task admitted is always its head, so a task enqueued before another
\* is admitted no later than it.
C32_FifoAdmission ==
  [][AdmitsHead /\ RootsInOrder /\ DependentsInOrder /\ QueueKept]_vars

\* B and C were released, in this order, by the completion of A; with one
\* slot B has been launched and C is still queued
C32_Witness ==
  /\ command = "run-hpc"
  /\ max_limit = 1
  /\ DOMAIN proc = {"A", "B", "C"}
  /\ validated.adjacency_list["A"] = <<"B", "C">>
  /\ joined = {"A"}
  /\ proc["B"] = "STARTED"
  /\ proc["C"] = "NONE"
  /\ ready_queue = <<"C">>

\* ------------------------------------------------------------------ C33
\* The step in which a context makes its pinning attempt
PinsNow(n) == pinning[n] = "NONE" /\ pinning'[n] # "NONE"

\* Whatever the attempt meets, the context goes on to sleep and send, and
\* the step changes no count
PinThenSend ==
  \A n \in DOMAIN proc :
    PinsNow(n) =>
      /\ pinning'[n] \in {"PINNED", "UNPINNED", "WARNED"}
      /\ proc'[n] = "SENT"
      /\ UNCHANGED <<active_on_node, remaining_tasks>>

\* A joined task was counted, pinned or not; at the return every task has
\* been, and every domain's count is back at zero
CountedAlike ==
  /\ remaining_tasks = Cardinality(DOMAIN proc \ joined)
  /\ (pc = "returned" /\ stage = "done") =>
       /\ joined = DOMAIN proc
       /\ \A nid \in DOMAIN active_on_node : active_on_node[nid] = 0

\* C33: process backend: a context whose pinning is unavailable or raises
\* still runs its workload and sends its signal; its task is counted as
\* completed, and its domain's active count goes up at launch and down at
\* completion as for a pinned one.
C33_BestEffortPinning ==
  /\ [][PinThenSend /\ ReleaseOnJoin]_vars
  /\ [](ActiveCountsExact /\ CountedAlike)

\* The run has returned; for A pinning was unavailable, for B it raised
C33_Witness ==
  /\ command = "run-hpc"
  /\ pc = "returned"
  /\ DOMAIN pinning = {"A", "B"}
  /\ pinning["A"] = "UNPINNED"
  /\ pinning["B"] = "WARNED"
  /\ joined = {"A", "B"}
  /\ remaining_tasks = 0

\* ------------------------------------------------------------------ C34
\* The task names an error value carries
NamedBy(error) ==
  {error[f] : f \in DOMAIN error \cap {"task", "dep"}}

\* The tasks Kahn's algorithm cannot visit: those on a cycle and those that
\* depend on one of them
Unvisited(ts) ==
  {n \in NameSet(ts) :
     \E m \in Ancestors(ts, n) \cup {n} : m \in Ancestors(ts, m)}

\* C34: when validate fails because of a cycle, the error it reports names
\* at least one task that Kahn's algorithm left unvisited.
C34_CycleNamesTask ==
  (ValidateRan /\ validated.error.kind = "cycle") =>
    NamedBy(validated.error) \cap Unvisited(tasks) # {}

\* ------------------------------------------------------------------ C35
\* C35: process backend, in every state of a run: no domain's active count
\* exceeds ceil(max_procs / N), N being the number of domains; the counts
\* of two domains may nevertheless differ by more than one once completions
\* have emptied a domain.
C35_DomainCeiling ==
  (command = "run-hpc" /\ pc # "idle") =>
    \A nid \in DOMAIN active_on_node :
      active_on_node[nid] <= CeilDiv(max_limit, Len(node_list))

\* Two domains, three slots: A and C were placed on domain 0 and B on
\* domain 1; B has completed, which leaves the counts 2 and 0
C35_Witness ==
  /\ command = "run-hpc"
  /\ node_list = <<0, 1>>
  /\ max_limit = 3
  /\ joined = {"B"}
  /\ active_on_node[0] = 2
  /\ active_on_node[1] = 0

\* ------------------------------------------------------------------ C36
\* C36: process backend entered with max_procs <= 0 on a non-empty task
\* set: no task is ever launched, the remaining-task counter stays at the
\* number of tasks, and the dispatch loop is never left.
C36_NoLimitCheck ==
  (command = "run-hpc" /\ pc # "idle" /\ max_limit <= 0 /\ tasks # <<>>) =>
    /\ Started = {}
    /\ running_processes = <<>>
    /\ remaining_tasks = Len(tasks)
    /\ pc \in {"loop", "spawn", "check"}

\* Entered with --max-procs 0, the dispatcher is in its loop once more with
\* both tasks ready and nothing launched
C36_Witness ==
  /\ command = "run-hpc"
  /\ max_limit = 0
  /\ pc = "check"
  /\ Len(tasks) = 2
  /\ ready_queue = <<"A", "B">>
  /\ remaining_tasks = 2

\* ------------------------------------------------------------------ C37
\* The tasks that neither lie on a cycle nor depend on one
Visitable(ts) == NameSet(ts) \ Unvisited(ts)

\* The process backend after the visitable tasks: nothing queued, nothing
\* outstanding, tasks still to come
Starved ==
  /\ pc \in {"loop", "spawn", "check"}
  /\ ready_queue = <<>>
  /\ running_processes = <<>>
  /\ remaining_tasks > 0
  /\ joined = Visitable(tasks)

\* C37: on a task set with a cycle, handed over without validation: the
\* thread backend returns, having run the tasks that do not depend on a
\* cycle, once each, and started none of the others; the process backend
\* runs the same tasks and then stays in its loop for ever, with an empty
\* queue, no outstanding context and a positive remaining-task counter.
C37_CyclicDivergence ==
  /\ []((stage = "execute" /\ pc # "idle") => Started \subseteq Visitable(tasks))
  /\ []((command = "run" /\ pc = "returned") =>
          /\ Started = Visitable(tasks)
          /\ \A n \in Started : starts[n] = 1 /\ future[n] = "FINISHED")
  /\ (command = "run" /\ stage = "execute") ~> (pc = "returned")
  /\ []((command = "run-hpc" /\ HasCycle(tasks)) =>
          pc \notin {"cleanup", "returned"})
  /\ (command = "run-hpc" /\ stage = "execute" /\ HasCycle(tasks))
       ~> []Starved

\* A and B depend on each other, C on nothing: the thread backend has
\* returned after running C alone
C37_Witness ==
  /\ command = "run"
  /\ pc = "returned"
  /\ Len(tasks) = 3
  /\ tasks[1].dependencies = <<"B">>
  /\ tasks[2].dependencies = <<"A">>
  /\ tasks[3].dependencies = <<>>
  /\ Started = {"C"}

\* ------------------------------------------------------------------ C38
\* The file has been read to its end and held no task
EmptyTaskSet == stage # "parse" /\ tasks = <<>>

\* The scheduler was entered without validate having run
CalledDirectly == stage \in {"execute", "done"} /\ "topo_order" \notin DOMAIN validated

\* C38: for the empty task set validate succeeds with an empty order and
\* compute_expected_runtime raises (max of nothing); the commands end with
\* that error and invoke no scheduler.  A scheduler called directly on the
\* empty task set starts nothing and goes straight to its return.
C38_EmptyTaskSet ==
  EmptyTaskSet =>
    /\ stage \in {"expected", "error"} =>
         /\ validated.error = NoError
         /\ validated.topo_order = <<>>
    /\ stage = "error" => exp.error = RuntimeError /\ pc = "idle"
    /\ stage \in {"execute", "done"} =>
         /\ CalledDirectly
         /\ Started = {}
         /\ pc \in {"idle", "loop", "shutdown", "cleanup", "returned"}

\* run-hpc on a file without records has ended with the error of
\* compute_expected_runtime, the scheduler not entered
C38_Witness ==
  /\ command = "run-hpc"
  /\ tasks = <<>>
  /\ stage = "error"
  /\ validated.error = NoError
  /\ exp.error = RuntimeError
  /\ pc = "idle"

\* ------------------------------------------------------------------ C39
\* The tasks whose workload raised
Failed == {n \in DOMAIN future : future[n] = "RAISED"}

\* result() of a failed future has raised in the dispatcher
Raising == command = "run" /\ pc \in {"shutdown", "returned"} /\ done \cap Failed # {}

\* The dispatcher gets past a future of its batch only if the workload
\* returned; at a failed one it leaves the loop there and then, queue and
\* in-degrees as they are
RaisesAtOnce ==
  (command = "run" /\ pc = "process" /\ done # {}) =>
    \/ /\ pc' = "process"
       /\ (done \ done') \cap Failed = {}
    \/ /\ pc' = "shutdown"
       /\ done' = done /\ done \cap Failed # {}
       /\ UNCHANGED <<in_degree, ready_queue>>
    \/ UNCHANGED vars

\* Once it has raised, the dispatcher admits nothing and updates nothing
NothingAfterRaise ==
  Raising =>
    /\ AdmittedNow = {}
    /\ UNCHANGED <<in_degree, ready_queue, running_futures, done>>

\* No dependent of a failed task is ever started
DependentsNotStarted ==
  (command = "run" /\ pc # "idle") =>
    \A n \in Failed :
      \A i \in DOMAIN validated.adjacency_list[n] :
        starts[validated.adjacency_list[n][i]] = 0

\* The call returns with the error only when everything submitted has run
ReturnsAfterPool ==
  (Raising /\ pc = "returned") =>
    /\ stage = "error"
    /\ work_queue = <<>>
    /\ \A n \in DOMAIN future :
         future[n] # "NONE" => (FutureDone(future[n]) /\ starts[n] = 1)

\* C39: thread backend: when a workload raises, the dispatcher raises the
\* same error as it processes that completion, admits no task and changes
\* no in-degree afterwards, so the dependents of the failed task never
\* start; the tasks already submitted run to completion before the call
\* returns with the error.
C39_ThreadFailure ==
  /\ [][RaisesAtOnce /\ NothingAfterRaise]_vars
  /\ [](DependentsNotStarted /\ ReturnsAfterPool)

\* A, of duration -1, and B were submitted together; A raised, and the call
\* has returned with the error after B ran to its end
C39_Witness ==
  /\ command = "run"
  /\ pc = "returned"
  /\ stage = "error"
  /\ DOMAIN future = {"A", "B"}
  /\ Get(tasks, "A").duration = -1
  /\ future["A"] = "RAISED"
  /\ future["B"] = "FINISHED"
  /\ "B" \notin Processed
  /\ starts["B"] = 1

\* ------------------------------------------------------------------ C40
\* compute_expected_runtime, the schedulers and a further call leave the
\* task set and what validate returned as they are
ArgumentsKept ==
  stage \in {"expected", "execute", "done"} =>
    tasks' = tasks /\ validated' = validated

\* Entering, a scheduler counts the dependency entries of every task anew,
\* whatever the table of validate or of an earlier call holds
CountsAnew ==
  (pc = "idle" /\ pc' # "idle") =>
    in_degree' = [n \in NameSet(tasks) |-> Cardinality(DOMAIN Get(tasks, n).dependencies)]

\* In every call a task that has started has all its dependencies completed
InDependencyOrder ==
  pc # "idle" =>
    \A n \in DOMAIN starts :
      starts[n] > 0 => DepsOf(tasks, n) \subseteq observed

\* Every call that has returned has run every task once
EveryTaskOnce ==
  pc = "returned" =>
    \A n \in NameSet(tasks) : starts[n] = 1 /\ Completed(n) /\ n \in observed

\* C40: neither compute_expected_runtime nor a scheduler changes the task
\* set or the table validate returned; each scheduler counts in-degrees
\* anew, so every further call on the same task set, with either backend,
\* runs every task exactly once and in dependency order.
C40_Reusable ==
  /\ [][ArgumentsKept /\ CountsAnew]_vars
  /\ [](InDependencyOrder /\ EveryTaskOnce)

\* The chain A -> B was run by the process backend, which joined both
\* contexts, and then by the thread backend, which has returned: B ran
\* once more, after A
C40_Witness ==
  /\ command = "run"
  /\ pc = "returned"
  /\ Len(tasks) = 2
  /\ tasks[2].dependencies = <<"A">>
  /\ joined = {"A", "B"}
  /\ DOMAIN future = {"A", "B"}
  /\ future["B"] = "FINISHED"
  /\ starts["B"] = 1
  /\ validated.in_degree["B"] = 0

====
